---- MODULE Spec2Model ----
(***************************************************************************)
(* The ingestion pipeline and job-dispatch coordinator of miniclue-ai:     *)
(* app/services/ingestion/orchestrator.py, ingest().                       *)
(*                                                                         *)
(* One invocation of ingest() is a sequential program; its position is     *)
(* run[s].pc, its local variables are the other fields of run[s].  The     *)
(* database tables, the object store and the settings are shared state.    *)
(* Every call of ingest() to a collaborator that has an effect (a status   *)
(* write, a row insert, an upload, a publish) is appended to run[s].log in *)
(* program order.                                                          *)
(*                                                                         *)
(* The helpers ingest() imports from ingestion/db_utils.py,                *)
(* ingestion/image_processing.py, ingestion/text_processing.py and         *)
(* ingestion/pubsub_utils.py are modelled from their contracts in the      *)
(* specification (sections 3, 4.2-4.6).                                    *)
(*                                                                         *)
(* ingest() reads lecture_id, storage_path, customer_identifier, name and   *)
(* email from its payload (orchestrator.py lines 39-43).  IngestionPayload  *)
(* as declared in app/schemas/ingestion.py has the first two only, so a     *)
(* payload is modelled by its lecture_id and by whether it carries the      *)
(* other three attributes; reading a missing one raises AttributeError.     *)
(* The values of the three are only forwarded into the published jobs.      *)
(***************************************************************************)
EXTENDS Integers, Sequences, FiniteSets, TLC

\* ------------------------------------------------------------------ bounds

\* The largest page count of a stored document.
MaxPages == 2

\* ------------------------------------------------------------- vocabulary

\* The chunker's fixed maximum of tokens per chunk (scaled down).
MaxTokensPerChunk == 2

\* Content hashes of embedded images.
Hashes == {1, 2}

\* A page is its raw text, as a number of tokens, and the content hashes of the
\* images embedded in it, in the order the page lists them.
PageKinds ==
    { [text |-> 0, images |-> <<>>],
      [text |-> 3, images |-> <<>>],
      [text |-> 1, images |-> <<1>>],
      [text |-> 0, images |-> <<2, 1, 2>>] }

\* The documents that can be stored under the payload's storage_path; the
\* document of no pages is one of them.
Docs == UNION { [1..n -> PageKinds] : n \in 0..MaxPages }

\* The lecture row that exists, and an id no row has.
ExistingLecture == "L1"
MissingLecture == "L0"
LectureIds == {ExistingLecture, MissingLecture}

\* The payloads ingest() can be called with.
Payloads == [lecture_id : LectureIds, customer_fields : BOOLEAN]

\* What the persistence helpers of ingestion/db_utils.py do when the row they
\* are called for exists: return it and insert nothing, or insert another
\* row.  The specification leaves it open (4.4 says insert, 7 that a retry
\* duplicates rows unless the persistence layer enforces idempotent upserts);
\* it is a property of the deployed code and does not change while it runs.
PersistenceKinds == {"get_or_create", "insert"}

\* Concurrent invocations of ingest() the service can hold.
Slots == {1, 2}

SlideNos == 1..MaxPages
MaxChunks == (3 + MaxTokensPerChunk - 1) \div MaxTokensPerChunk
ChunkIdxs == 0..(MaxChunks - 1)

NoError == [service |-> "", error |-> ""]

Ev(op, n) == [op |-> op, n |-> n]

\* --------------------------------------------------------------- variables

VARIABLES
    persistence,     \* what get_or_create_slide and get_or_create_chunk do with
                     \* a row that exists: see PersistenceKinds
    settings,        \* the process-wide Settings(): is postgres_dsn set
    storage_doc,     \* the document stored under storage_path
    lecture,         \* the lectures row of ExistingLecture
    slides,          \* slides table: slide_number -> number of rows
    chunks,          \* chunks table: <<slide_number, chunk_index>> -> number of rows
    fulls,           \* slide numbers that have a 'full' slide_images row with a path
    content_images,  \* hashes that have a 'content' slide_images row
    objects,         \* the object store: keys uploaded
    run,             \* per slot: the invocation of ingest() it runs
    summaries,       \* summaries table: lecture id -> number of rows and content
    persist          \* the locals of one persist_summary_and_update_lecture() call

tables == <<slides, chunks, fulls, content_images>>
vars == <<persistence, settings, storage_doc, lecture, slides, chunks, fulls, content_images,
          objects, run, summaries, persist>>

\* The state of the summarize service.
summarize == <<summaries, persist>>

\* No summaries row, and the row count and content of one.
NoSummary == [rows |-> 0, content |-> ""]

\* The locals of persist_summary_and_update_lecture() before the call.
IdlePersist ==
    [ pc |-> "idle", lecture_id |-> MissingLecture, summary |-> "",
      txn_summary |-> FALSE,           \* the upsert is made, not committed
      txn_status |-> FALSE,            \* the status update is made, not committed
      replaced |-> FALSE,              \* the commit replaced the content of a row
      outcome |-> "none" ]

\* The summarize service has done nothing.
NoSummarize ==
    /\ summaries = [id \in LectureIds |-> NoSummary]
    /\ persist = IdlePersist

EmptyTxn == [slides |-> {}, chunks |-> {}, fulls |-> {}, contents |-> {}]

\* The locals of ingest() before the call.
IdleRun ==
    [ pc |-> "idle",
      lecture_id |-> MissingLecture,
      customer_fields |-> FALSE,       \* the payload has customer_identifier, name, email
      s3_client |-> "none",            \* none / open / closed
      conn |-> "none",
      doc |-> "none",
      total_slides |-> 0,
      page_index |-> 0,
      processed_images_map |-> {},     \* keys of the dict
      image_analysis_jobs |-> <<>>,    \* image_hash of each job
      new_jobs |-> <<>>,               \* process_slide_sub_images' result so far
      chunk_idx |-> 0,
      img_idx |-> 0,
      txn |-> EmptyTxn,                \* uncommitted row inserts
      in_txn |-> FALSE,
      slides_for_jobs |-> <<>>,
      job_idx |-> 0,
      img_job_idx |-> 0,
      total_sub_images |-> 0,
      exc |-> "",                      \* the exception caught, by the step that raised
      outcome |-> "none",              \* none / returned / raised
      raised |-> "",                   \* the exception the caller sees
      skipped |-> FALSE,               \* returned at the lecture-not-found check
      fresh |-> FALSE,                 \* the lecture had no rows when the call began
      status_before |-> "",            \* lectures.status when the call began
      response |-> "none",             \* the endpoint's answer: none / 204 / 500
      cancelled |-> FALSE,             \* the exception on its way is a CancelledError
      log |-> <<>> ]

\* ------------------------------------------------------------------- Init

\* Rows other writers of the shared database may have left: none, or a slide
\* row without a full image together with a stale explanation error.
InitLecture(legacy) ==
    [ status |-> "queued", total_slides |-> 0, sub_image_count |-> 0,
      search_error_details |-> NoError, explanation_error_details |-> legacy ]

Init ==
    /\ persistence = "get_or_create"
    /\ settings \in { [postgres_dsn |-> b] : b \in BOOLEAN }
    /\ storage_doc \in Docs
    /\ \E legacy \in BOOLEAN :
          /\ lecture = InitLecture(legacy)
          /\ slides = [n \in SlideNos |-> IF legacy /\ n = MaxPages THEN 1 ELSE 0]
    /\ chunks = [c \in SlideNos \X ChunkIdxs |-> 0]
    /\ fulls = {}
    /\ content_images = {}
    /\ objects = {}
    /\ run = [s \in Slots |-> IdleRun]
    /\ NoSummarize

\* ---------------------------------------------------------------- helpers

R(s) == run[s]

SetRun(s, r) == run' = [run EXCEPT ![s] = r]

Logged(r, op, n) == [r EXCEPT !.log = Append(@, Ev(op, n))]

\* An UPDATE lectures ... WHERE id = $1 changes the row only if it exists.
UpdateLecture(id, new) == IF id = ExistingLecture THEN new ELSE lecture

TablesEmpty ==
    /\ \A n \in SlideNos : slides[n] = 0
    /\ \A c \in SlideNos \X ChunkIdxs : chunks[c] = 0
    /\ fulls = {}
    /\ content_images = {}

\* What a call can raise: an Exception, or at an await the CancelledError of
\* the task being cancelled, which is a BaseException and no Exception.
Exceptions == {"Exception", "CancelledError"}

\* A try block with no handler: the exception goes straight to the finally
\* block and out.
RaiseSkipsHandler(r, step, e) ==
    [r EXCEPT !.pc = "finally", !.exc = step, !.raised = step,
              !.cancelled = (e = "CancelledError")]

\* An exception raised inside the try block: `except Exception` takes an
\* Exception to the handler; a CancelledError passes it and goes to the
\* finally block.
Raise(r, step, e) ==
    IF e = "Exception"
    THEN [r EXCEPT !.pc = "except", !.exc = step]
    ELSE [r EXCEPT !.pc = "finally", !.exc = step, !.cancelled = TRUE]

Min(a, b) == IF a < b THEN a ELSE b

\* chunk_text_by_tokens: the token count of each chunk, in order.
RECURSIVE chunk_text_by_tokens(_)
chunk_text_by_tokens(text) ==
    IF text = 0 THEN <<>>
    ELSE <<Min(text, MaxTokensPerChunk)>>
         \o chunk_text_by_tokens(text - Min(text, MaxTokensPerChunk))

\* The page ingest() is working on.
CurPage(r) == storage_doc[r.page_index + 1]
SlideNumber(r) == r.page_index + 1

\* The loop bound one short: the last page is never reached.
MorePagesOffByOne(r) == r.page_index < r.total_slides - 1

\* for page_index in range(total_slides)
MorePages(r) == r.page_index < r.total_slides

\* get_slides_with_images_for_lecture: one record per slide row, by slide
\* number, with the path of its full image or none.
RECURSIVE SlidesFrom(_)
SlidesFrom(n) ==
    IF n > MaxPages THEN <<>>
    ELSE [k \in 1..slides[n] |-> [slide_number |-> n, has_path |-> n \in fulls]]
         \o SlidesFrom(n + 1)

get_slides_with_images_for_lecture == SlidesFrom(1)

\* The effect of a committed transaction on the tables.
ApplyTxn(t) ==
    /\ slides' = [n \in SlideNos |-> slides[n] + (IF n \in t.slides THEN 1 ELSE 0)]
    /\ chunks' = [c \in SlideNos \X ChunkIdxs |->
                     chunks[c] + (IF c \in t.chunks THEN 1 ELSE 0)]
    /\ fulls' = fulls \cup t.fulls
    /\ content_images' = content_images \cup t.contents

\* A statement inside `async with conn.transaction()` raises: the block is
\* left through the exit of the transaction, which awaits ROLLBACK before the
\* exception goes on.  Until then the inserts of the block are still pending.
RaiseInTxn(s, r, step, e) ==
    /\ SetRun(s, [r EXCEPT !.pc = "rollback", !.exc = step,
                           !.cancelled = (e = "CancelledError")])
    /\ UNCHANGED tables

\* The COMMIT awaited by the normal exit of the block raises: no ROLLBACK is
\* sent after it, and nothing of the transaction is committed.
CommitFails(s, r, e) ==
    /\ SetRun(s, [Raise(r, "commit", e) EXCEPT !.txn = EmptyTxn, !.in_txn = FALSE])
    /\ UNCHANGED tables

\* The transaction opened around the whole loop instead of around one slide:
\* nothing is committed before the last page's block exits.
TxnCommitAtLoopEnd(s, r) ==
    LET last == r.page_index + 1 = r.total_slides IN
    /\ SetRun(s, [r EXCEPT !.pc = "loop", !.in_txn = FALSE,
                           !.txn = IF last THEN EmptyTxn ELSE @,
                           !.page_index = @ + 1])
    /\ IF last THEN ApplyTxn(r.txn) ELSE UNCHANGED tables

\* The block exits normally: the slide's inserts are committed.
TxnCommit(s, r) ==
    /\ SetRun(s, [r EXCEPT !.pc = "loop", !.txn = EmptyTxn, !.in_txn = FALSE,
                           !.page_index = @ + 1,
                           !.log = Append(@, Ev("commit", SlideNumber(r)))])
    /\ ApplyTxn(r.txn)

\* ------------------------------------------------------- ingest(): set-up

\* The dedup map kept in a module-level variable: a run starts with the
\* entries of the run before it.
StartKeepsMap(s) ==
    /\ R(s).pc \in {"idle", "done"}
    /\ \E payload \in Payloads :
          SetRun(s, [IdleRun EXCEPT !.pc = "read_payload",
                                    !.lecture_id = payload.lecture_id,
                                    !.customer_fields = payload.customer_fields,
                                    !.fresh = TablesEmpty,
                                    !.status_before = lecture.status,
                                    !.processed_images_map = R(s).processed_images_map])
    /\ UNCHANGED <<summarize, persistence, settings, storage_doc, lecture, tables, objects>>

\* ingest(payload) is called.
Start(s) ==
    /\ R(s).pc \in {"idle", "done"}
    /\ \E payload \in Payloads :
          SetRun(s, [IdleRun EXCEPT !.pc = "read_payload",
                                    !.lecture_id = payload.lecture_id,
                                    !.customer_fields = payload.customer_fields,
                                    !.fresh = TablesEmpty,
                                    !.status_before = lecture.status])
    /\ UNCHANGED <<summarize, persistence, settings, storage_doc, lecture, tables, objects>>

\* lecture_id = payload.lecture_id ... email = payload.email (before the try
\* block): an attribute the payload lacks raises AttributeError.
ReadPayload(s) ==
    /\ R(s).pc = "read_payload"
    /\ IF R(s).customer_fields
          THEN SetRun(s, [R(s) EXCEPT !.pc = "check_dsn"])
          ELSE SetRun(s, [R(s) EXCEPT !.pc = "done", !.outcome = "raised",
                                      !.raised = "payload"])
    /\ UNCHANGED <<summarize, persistence, settings, storage_doc, lecture, tables, objects>>

\* if not settings.postgres_dsn: raise RuntimeError (before the try block)
CheckDsn(s) ==
    /\ R(s).pc = "check_dsn"
    /\ IF settings.postgres_dsn
          THEN SetRun(s, [R(s) EXCEPT !.pc = "connect_s3"])
          ELSE SetRun(s, [R(s) EXCEPT !.pc = "done", !.outcome = "raised",
                                      !.raised = "config"])
    /\ UNCHANGED <<summarize, persistence, settings, storage_doc, lecture, tables, objects>>

ConnectS3(s) ==
    /\ R(s).pc = "connect_s3"
    /\ \E ok \in BOOLEAN :
          SetRun(s, IF ok THEN [R(s) EXCEPT !.pc = "connect_db", !.s3_client = "open"]
                          ELSE Raise(R(s), "connect_s3", "Exception"))
    /\ UNCHANGED <<summarize, persistence, settings, storage_doc, lecture, tables, objects>>

ConnectDb(s) ==
    /\ R(s).pc = "connect_db"
    /\ \E ok \in BOOLEAN, e \in Exceptions :
          SetRun(s, IF ok THEN [R(s) EXCEPT !.pc = "verify", !.conn = "open"]
                          ELSE Raise(R(s), "connect_db", e))
    /\ UNCHANGED <<summarize, persistence, settings, storage_doc, lecture, tables, objects>>

\* verify_lecture_exists
LectureFound(id) == id = ExistingLecture

\* The check without its early return: the run goes on whatever it finds.
VerifyLectureNoReturn(s) ==
    /\ R(s).pc = "verify"
    /\ \E ok \in BOOLEAN, e \in Exceptions :
          SetRun(s, IF ~ok THEN Raise(R(s), "verify", e)
                    ELSE [R(s) EXCEPT !.pc = "clear_errors"])
    /\ UNCHANGED <<summarize, persistence, settings, storage_doc, lecture, tables, objects>>

\* if not await verify_lecture_exists(conn, lecture_id): return
VerifyLecture(s) ==
    /\ R(s).pc = "verify"
    /\ \E ok \in BOOLEAN, e \in Exceptions :
          SetRun(s, IF ~ok THEN Raise(R(s), "verify", e)
                    ELSE IF LectureFound(R(s).lecture_id)
                         THEN [R(s) EXCEPT !.pc = "clear_errors"]
                         ELSE [R(s) EXCEPT !.pc = "finally", !.skipped = TRUE])
    /\ UNCHANGED <<summarize, persistence, settings, storage_doc, lecture, tables, objects>>

\* The run going from verification straight to the download.
ClearErrorsOmitted(s) ==
    /\ R(s).pc = "clear_errors"
    /\ SetRun(s, [R(s) EXCEPT !.pc = "download"])
    /\ UNCHANGED <<summarize, persistence, settings, storage_doc, lecture, tables, objects>>

ClearErrors(s) ==
    /\ R(s).pc = "clear_errors"
    /\ \E ok \in BOOLEAN, e \in Exceptions :
          IF ok
          THEN /\ lecture' = UpdateLecture(R(s).lecture_id,
                                [lecture EXCEPT !.search_error_details = NoError,
                                                !.explanation_error_details = FALSE])
               /\ SetRun(s, Logged([R(s) EXCEPT !.pc = "download"], "clear_errors", 0))
          ELSE /\ SetRun(s, Raise(R(s), "clear_errors", e))
               /\ UNCHANGED lecture
    /\ UNCHANGED <<summarize, persistence, settings, storage_doc, tables, objects>>

Download(s) ==
    /\ R(s).pc = "download"
    /\ \E ok \in BOOLEAN :
          SetRun(s, IF ok THEN [R(s) EXCEPT !.pc = "open"]
                          ELSE Raise(R(s), "download", "Exception"))
    /\ UNCHANGED <<summarize, persistence, settings, storage_doc, lecture, tables, objects>>

OpenDoc(s) ==
    /\ R(s).pc = "open"
    /\ \E ok \in BOOLEAN :
          SetRun(s, IF ok THEN [R(s) EXCEPT !.pc = "set_parsing", !.doc = "open",
                                            !.total_slides = Len(storage_doc)]
                          ELSE Raise(R(s), "open", "Exception"))
    /\ UNCHANGED <<summarize, persistence, settings, storage_doc, lecture, tables, objects>>

\* The index of the last page written in place of the page count.
SetParsingLastIndex(s) ==
    /\ R(s).pc = "set_parsing"
    /\ \E ok \in BOOLEAN, e \in Exceptions :
          IF ok
          THEN /\ lecture' = UpdateLecture(R(s).lecture_id,
                                [lecture EXCEPT !.status = "parsing",
                                                !.total_slides = R(s).total_slides - 1])
               /\ SetRun(s, Logged([R(s) EXCEPT !.pc = "loop"], "parsing", 0))
          ELSE /\ SetRun(s, Raise(R(s), "set_parsing", e))
               /\ UNCHANGED lecture
    /\ UNCHANGED <<summarize, persistence, settings, storage_doc, tables, objects>>

\* The parsing write behind a status test: a lecture that is already
\* 'explaining' or 'complete' is left as it is.
SetParsingGuarded(s) ==
    /\ R(s).pc = "set_parsing"
    /\ \E ok \in BOOLEAN, e \in Exceptions :
          IF ok
          THEN IF lecture.status \in {"explaining", "complete"}
               THEN /\ SetRun(s, [R(s) EXCEPT !.pc = "loop"])
                    /\ UNCHANGED lecture
               ELSE /\ lecture' = UpdateLecture(R(s).lecture_id,
                                     [lecture EXCEPT !.status = "parsing",
                                                     !.total_slides = R(s).total_slides])
                    /\ SetRun(s, Logged([R(s) EXCEPT !.pc = "loop"], "parsing", 0))
          ELSE /\ SetRun(s, Raise(R(s), "set_parsing", e))
               /\ UNCHANGED lecture
    /\ UNCHANGED <<summarize, persistence, settings, storage_doc, tables, objects>>

SetParsing(s) ==
    /\ R(s).pc = "set_parsing"
    /\ \E ok \in BOOLEAN, e \in Exceptions :
          IF ok
          THEN /\ lecture' = UpdateLecture(R(s).lecture_id,
                                [lecture EXCEPT !.status = "parsing",
                                                !.total_slides = R(s).total_slides])
               /\ SetRun(s, Logged([R(s) EXCEPT !.pc = "loop"], "parsing", 0))
          ELSE /\ SetRun(s, Raise(R(s), "set_parsing", e))
               /\ UNCHANGED lecture
    /\ UNCHANGED <<summarize, persistence, settings, storage_doc, tables, objects>>


\* ------------------------------------------- ingest(): the per-page loop

\* processed_images_map created inside the loop: every page starts with an
\* empty map.
BeginSlideFreshMap(r) ==
    [r EXCEPT !.pc = "txn_slide", !.in_txn = TRUE,
              !.chunk_idx = 0, !.img_idx = 0, !.new_jobs = <<>>,
              !.processed_images_map = {}]

\* The locals as one iteration of the loop begins.  processed_images_map and
\* image_analysis_jobs are created once, before the loop, and carried over.
BeginSlide(r) ==
    [r EXCEPT !.pc = "txn_slide", !.in_txn = TRUE,
              !.chunk_idx = 0, !.img_idx = 0, !.new_jobs = <<>>]

\* doc.load_page(page_index), then the transaction of the slide begins.
LoadPage(s) ==
    /\ R(s).pc = "loop"
    /\ MorePages(R(s))
    /\ \E ok \in BOOLEAN, e \in Exceptions :
          SetRun(s, IF ok THEN BeginSlide(R(s)) ELSE Raise(R(s), "load_page", e))
    /\ UNCHANGED <<summarize, persistence, settings, storage_doc, lecture, tables, objects>>

\* A plain INSERT: a row is added whether or not one exists.
insert_slide(r, n) == Logged([r EXCEPT !.txn.slides = @ \cup {n}], "slide", n)

\* get_or_create_slide: the slide row of (lecture, slide_number).  A helper
\* that gets or creates inserts the row if the transaction sees none; one
\* that inserts adds a row on every call.
get_or_create_slide(r, n) ==
    IF persistence = "get_or_create" /\ (slides[n] > 0 \/ n \in r.txn.slides)
    THEN r
    ELSE Logged([r EXCEPT !.txn.slides = @ \cup {n}], "slide", n)

TxnSlide(s) ==
    /\ R(s).pc = "txn_slide"
    /\ \E ok \in BOOLEAN, e \in Exceptions :
          IF ok
          THEN /\ SetRun(s, [get_or_create_slide(R(s), SlideNumber(R(s)))
                               EXCEPT !.pc = "txn_chunks"])
               /\ UNCHANGED tables
          ELSE RaiseInTxn(s, R(s), "slide", e)
    /\ UNCHANGED <<summarize, persistence, settings, storage_doc, lecture, objects>>

\* get_or_create_chunk, likewise by (slide, chunk_index).
get_or_create_chunk(r, n, idx) ==
    IF persistence = "get_or_create"
       /\ (chunks[<<n, idx>>] > 0 \/ <<n, idx>> \in r.txn.chunks)
    THEN r
    ELSE Logged([r EXCEPT !.txn.chunks = @ \cup {<<n, idx>>}], "chunk", n)

\* enumerate(chunks, 1): the chunk indexes start at 1.
TxnChunkOneBased(s) ==
    /\ R(s).pc = "txn_chunks"
    /\ R(s).chunk_idx < Len(chunk_text_by_tokens(CurPage(R(s)).text))
    /\ \E ok \in BOOLEAN, e \in Exceptions :
          IF ok
          THEN /\ SetRun(s, [Logged([R(s) EXCEPT !.txn.chunks =
                                        @ \cup {<<SlideNumber(R(s)), R(s).chunk_idx + 1>>}],
                                    "chunk", SlideNumber(R(s)))
                               EXCEPT !.chunk_idx = @ + 1])
               /\ UNCHANGED tables
          ELSE RaiseInTxn(s, R(s), "chunk", e)
    /\ UNCHANGED <<summarize, persistence, settings, storage_doc, lecture, objects>>

\* for idx, (text_chunk, token_count) in enumerate(chunks)
TxnChunk(s) ==
    /\ R(s).pc = "txn_chunks"
    /\ R(s).chunk_idx < Len(chunk_text_by_tokens(CurPage(R(s)).text))
    /\ \E ok \in BOOLEAN, e \in Exceptions :
          IF ok
          THEN /\ SetRun(s, [get_or_create_chunk(R(s), SlideNumber(R(s)), R(s).chunk_idx)
                               EXCEPT !.chunk_idx = @ + 1])
               /\ UNCHANGED tables
          ELSE RaiseInTxn(s, R(s), "chunk", e)
    /\ UNCHANGED <<summarize, persistence, settings, storage_doc, lecture, objects>>

FullKey(n) == [kind |-> "slide", n |-> n]
ContentKey(h) == [kind |-> "content", n |-> h]

\* render_and_upload_slide_image: render the page, upload it under the
\* slide-addressed key, insert the 'full' slide_images row of the slide.
render_and_upload_slide_image(r, n) ==
    Logged(Logged([r EXCEPT !.txn.fulls = @ \cup {n}], "upload_full", n),
           "full_image", n)

\* The call can raise before the upload or between the upload and the insert.
TxnFullImage(s) ==
    /\ R(s).pc = "txn_chunks"
    /\ R(s).chunk_idx = Len(chunk_text_by_tokens(CurPage(R(s)).text))
    /\ LET n == SlideNumber(R(s)) IN
       \E res \in {"ok", "render_fails", "insert_fails"}, e \in Exceptions :
          /\ objects' = IF res = "render_fails" THEN objects
                        ELSE objects \cup {FullKey(n)}
          /\ IF res = "ok"
             THEN /\ SetRun(s, [render_and_upload_slide_image(R(s), n)
                                  EXCEPT !.pc = "txn_images"])
                  /\ UNCHANGED tables
             ELSE RaiseInTxn(s, IF res = "render_fails" THEN R(s)
                                ELSE Logged(R(s), "upload_full", n), "full_image", e)
    /\ UNCHANGED <<summarize, persistence, settings, storage_doc, lecture>>

\* The Image Deduplicator on one embedded image: a hash already in
\* processed_images_map is skipped; a new one is uploaded under the
\* content-addressed key, gets a 'content' row and a job, and enters the map.
resolve(r, h) ==
    IF h \in r.processed_images_map
    THEN r
    ELSE Logged(Logged([r EXCEPT !.txn.contents = @ \cup {h},
                                 !.processed_images_map = @ \cup {h},
                                 !.new_jobs = Append(@, h)],
                       "upload_content", h), "content_image", h)

\* process_slide_sub_images, one embedded image of the page at a time.  The
\* call can raise before the upload of a new image, or between the upload
\* and the insert of its row, the map not yet holding the hash.
TxnSubImage(s) ==
    /\ R(s).pc = "txn_images"
    /\ R(s).img_idx < Len(CurPage(R(s)).images)
    /\ LET h == CurPage(R(s)).images[R(s).img_idx + 1]
           new == h \notin R(s).processed_images_map
       IN \E res \in {"ok", "fails", "insert_fails"}, e \in Exceptions :
          /\ (res = "insert_fails") => new
          /\ objects' = IF new /\ res # "fails" THEN objects \cup {ContentKey(h)}
                        ELSE objects
          /\ IF res = "ok"
             THEN /\ SetRun(s, [resolve(R(s), h) EXCEPT !.img_idx = @ + 1])
                  /\ UNCHANGED tables
             ELSE RaiseInTxn(s, IF res = "fails" THEN R(s)
                                ELSE Logged(R(s), "upload_content", h), "sub_image", e)
    /\ UNCHANGED <<summarize, persistence, settings, storage_doc, lecture>>

\* image_analysis_jobs.extend(new_jobs)
Extend(r) == [r EXCEPT !.image_analysis_jobs = @ \o r.new_jobs]

\* The last statement of the block and its exit: the commit, which can fail.
TxnEnd(s) ==
    /\ R(s).pc = "txn_images"
    /\ R(s).img_idx = Len(CurPage(R(s)).images)
    /\ \E ok \in BOOLEAN, e \in Exceptions :
          IF ok THEN TxnCommit(s, Extend(R(s)))
                ELSE CommitFails(s, Extend(R(s)), e)
    /\ UNCHANGED <<summarize, persistence, settings, storage_doc, lecture, objects>>

\* The exit of the block made without a ROLLBACK: what was inserted before
\* the exception stays.
TxnAbortKeepsWrites(s) ==
    /\ R(s).pc = "rollback"
    /\ \E ok \in BOOLEAN, e \in Exceptions :
          LET r == [R(s) EXCEPT !.txn = EmptyTxn, !.in_txn = FALSE] IN
          SetRun(s, IF ok THEN Raise(r, r.exc, IF r.cancelled THEN "CancelledError"
                                               ELSE "Exception")
                          ELSE Raise([r EXCEPT !.cancelled = FALSE], "rollback", e))
    /\ ApplyTxn(R(s).txn)
    /\ UNCHANGED <<summarize, persistence, settings, storage_doc, lecture, objects>>

\* The exit of `async with conn.transaction()` on an exception: ROLLBACK is
\* awaited, the inserts of the block are discarded, and the exception goes
\* on.  The ROLLBACK can raise itself, an Exception or the CancelledError of
\* its await; the transaction is not committed then either, and the
\* exception of the ROLLBACK is the one that goes on.
TxnAbort(s) ==
    /\ R(s).pc = "rollback"
    /\ \E ok \in BOOLEAN, e \in Exceptions :
          LET r == [R(s) EXCEPT !.txn = EmptyTxn, !.in_txn = FALSE] IN
          SetRun(s, IF ok THEN Raise(r, r.exc, IF r.cancelled THEN "CancelledError"
                                               ELSE "Exception")
                          ELSE Raise([r EXCEPT !.cancelled = FALSE], "rollback", e))
    /\ UNCHANGED <<summarize, persistence, settings, storage_doc, lecture, tables, objects>>

\* ------------------------------------------ ingest(): after the loop

\* The number of embedded images on the pages 1..n, repeats counted.
RECURSIVE ImageOccurrences(_)
ImageOccurrences(n) ==
    IF n = 0 THEN 0 ELSE Len(storage_doc[n].images) + ImageOccurrences(n - 1)

\* The count of image occurrences recorded in place of the count of unique
\* hashes.
SubImageCountOccurrences(s) ==
    /\ R(s).pc = "loop"
    /\ ~MorePages(R(s))
    /\ LET total == ImageOccurrences(Len(storage_doc)) IN
       \E ok \in BOOLEAN, e \in Exceptions :
          IF ok
          THEN /\ lecture' = UpdateLecture(R(s).lecture_id,
                                [lecture EXCEPT !.sub_image_count = total])
               /\ SetRun(s, Logged([R(s) EXCEPT !.pc = "set_explaining",
                                                !.total_sub_images = total],
                                   "sub_image_count", total))
          ELSE /\ SetRun(s, Raise([R(s) EXCEPT !.total_sub_images = total],
                                  "sub_image_count", e))
               /\ UNCHANGED lecture
    /\ UNCHANGED <<summarize, persistence, settings, storage_doc, tables, objects>>

\* total_sub_images = len(processed_images_map); update_lecture_sub_image_count
SubImageCount(s) ==
    /\ R(s).pc = "loop"
    /\ ~MorePages(R(s))
    /\ LET total == Cardinality(R(s).processed_images_map) IN
       \E ok \in BOOLEAN, e \in Exceptions :
          IF ok
          THEN /\ lecture' = UpdateLecture(R(s).lecture_id,
                                [lecture EXCEPT !.sub_image_count = total])
               /\ SetRun(s, Logged([R(s) EXCEPT !.pc = "set_explaining",
                                                !.total_sub_images = total],
                                   "sub_image_count", total))
          ELSE /\ SetRun(s, Raise([R(s) EXCEPT !.total_sub_images = total],
                                  "sub_image_count", e))
               /\ UNCHANGED lecture
    /\ UNCHANGED <<summarize, persistence, settings, storage_doc, tables, objects>>

\* The step with the status write left out: dispatch starts without it.
SetExplainingOmitted(s) ==
    /\ R(s).pc = "set_explaining"
    /\ SetRun(s, [R(s) EXCEPT !.pc = "get_slides"])
    /\ UNCHANGED <<summarize, persistence, settings, storage_doc, lecture, tables, objects>>

\* The status literal of the final state in place of "explaining".
SetExplainingComplete(s) ==
    /\ R(s).pc = "set_explaining"
    /\ \E ok \in BOOLEAN, e \in Exceptions :
          IF ok
          THEN /\ lecture' = UpdateLecture(R(s).lecture_id,
                                [lecture EXCEPT !.status = "complete"])
               /\ SetRun(s, Logged([R(s) EXCEPT !.pc = "get_slides"], "complete", 0))
          ELSE /\ SetRun(s, Raise(R(s), "set_explaining", e))
               /\ UNCHANGED lecture
    /\ UNCHANGED <<summarize, persistence, settings, storage_doc, tables, objects>>

\* The status literal of the earlier write repeated in place of "explaining".
SetExplainingParsingAgain(s) ==
    /\ R(s).pc = "set_explaining"
    /\ \E ok \in BOOLEAN, e \in Exceptions :
          IF ok
          THEN /\ lecture' = UpdateLecture(R(s).lecture_id,
                                [lecture EXCEPT !.status = "parsing"])
               /\ SetRun(s, Logged([R(s) EXCEPT !.pc = "get_slides"], "parsing", 0))
          ELSE /\ SetRun(s, Raise(R(s), "set_explaining", e))
               /\ UNCHANGED lecture
    /\ UNCHANGED <<summarize, persistence, settings, storage_doc, tables, objects>>

\* update_lecture_status(conn, lecture_id, "explaining")
SetExplaining(s) ==
    /\ R(s).pc = "set_explaining"
    /\ \E ok \in BOOLEAN, e \in Exceptions :
          IF ok
          THEN /\ lecture' = UpdateLecture(R(s).lecture_id,
                                [lecture EXCEPT !.status = "explaining"])
               /\ SetRun(s, Logged([R(s) EXCEPT !.pc = "get_slides"], "explaining", 0))
          ELSE /\ SetRun(s, Raise(R(s), "set_explaining", e))
               /\ UNCHANGED lecture
    /\ UNCHANGED <<summarize, persistence, settings, storage_doc, tables, objects>>

\* The slide rows read back for the pages of the run's document only.
GetSlidesOfDocument(s) ==
    /\ R(s).pc = "get_slides"
    /\ \E ok \in BOOLEAN, e \in Exceptions :
          SetRun(s, IF ok THEN [R(s) EXCEPT !.pc = "dispatch",
                                            !.slides_for_jobs =
                                                SelectSeq(get_slides_with_images_for_lecture,
                                                          LAMBDA rec : rec.slide_number <= R(s).total_slides)]
                          ELSE Raise(R(s), "get_slides", e))
    /\ UNCHANGED <<summarize, persistence, settings, storage_doc, lecture, tables, objects>>

GetSlides(s) ==
    /\ R(s).pc = "get_slides"
    /\ \E ok \in BOOLEAN, e \in Exceptions :
          SetRun(s, IF ok THEN [R(s) EXCEPT !.pc = "dispatch",
                                            !.slides_for_jobs =
                                                get_slides_with_images_for_lecture]
                          ELSE Raise(R(s), "get_slides", e))
    /\ UNCHANGED <<summarize, persistence, settings, storage_doc, lecture, tables, objects>>

\* The job published without looking at slide_image_path.
ExplanationJobForAny(r, rec) == Logged(r, "publish_explanation", rec.slide_number)

\* A job only for a slide whose row this run created: a retry that finds the
\* rows publishes nothing for them.
ExplanationJobForNewSlide(r, rec) ==
    IF rec.has_path /\ \E i \in 1..Len(r.log) : r.log[i] = Ev("slide", rec.slide_number)
    THEN Logged(r, "publish_explanation", rec.slide_number)
    ELSE r

\* if slide_image_path: publish_explanation_job(...) else: log a warning
ExplanationJobFor(r, rec) ==
    IF rec.has_path THEN Logged(r, "publish_explanation", rec.slide_number) ELSE r

\* for slide_record in slides_for_jobs
PublishExplanation(s) ==
    /\ R(s).pc = "dispatch"
    /\ R(s).job_idx < Len(R(s).slides_for_jobs)
    /\ LET rec == R(s).slides_for_jobs[R(s).job_idx + 1] IN
       \E ok \in BOOLEAN :
          /\ ~ok => rec.has_path
          /\ SetRun(s, IF ok THEN [ExplanationJobFor(R(s), rec) EXCEPT !.job_idx = @ + 1]
                             ELSE Raise(R(s), "publish_explanation", "Exception"))
    /\ UNCHANGED <<summarize, persistence, settings, storage_doc, lecture, tables, objects>>

ExplanationsDone(r) == r.pc = "dispatch" /\ r.job_idx = Len(r.slides_for_jobs)

\* The test with >= for >: the embedding branch is dead.
HasSubImagesOrNone(r) == r.total_sub_images >= 0

\* The test inverted: the two branches are swapped.
HasSubImagesInverted(r) == r.total_sub_images = 0

\* if total_sub_images > 0
HasSubImages(r) == r.total_sub_images > 0

\* for job in image_analysis_jobs: publish_image_analysis_job(...)
PublishImageAnalysis(s) ==
    /\ ExplanationsDone(R(s))
    /\ HasSubImages(R(s))
    /\ R(s).img_job_idx < Len(R(s).image_analysis_jobs)
    /\ LET h == R(s).image_analysis_jobs[R(s).img_job_idx + 1] IN
       \E ok \in BOOLEAN :
          SetRun(s, IF ok THEN Logged([R(s) EXCEPT !.img_job_idx = @ + 1],
                                      "publish_image_analysis", h)
                          ELSE Raise(R(s), "publish_image_analysis", "Exception"))
    /\ UNCHANGED <<summarize, persistence, settings, storage_doc, lecture, tables, objects>>

\* The image-analysis loop is over: the try block ends.
ImageAnalysisDone(s) ==
    /\ ExplanationsDone(R(s))
    /\ HasSubImages(R(s))
    /\ R(s).img_job_idx = Len(R(s).image_analysis_jobs)
    /\ SetRun(s, [R(s) EXCEPT !.pc = "finally"])
    /\ UNCHANGED <<summarize, persistence, settings, storage_doc, lecture, tables, objects>>

\* else: publish_embedding_job(...)
PublishEmbedding(s) ==
    /\ ExplanationsDone(R(s))
    /\ ~HasSubImages(R(s))
    /\ \E ok \in BOOLEAN :
          SetRun(s, IF ok THEN Logged([R(s) EXCEPT !.pc = "finally"],
                                      "publish_embedding", 0)
                          ELSE Raise(R(s), "publish_embedding", "Exception"))
    /\ UNCHANGED <<summarize, persistence, settings, storage_doc, lecture, tables, objects>>

\* ------------------------------------- ingest(): except and finally

ErrorInfo(e) == [service |-> "ingestion", error |-> e]

\* The handler without its last statement, the bare raise: the status is
\* written and the exception is swallowed.
ExceptNoReraise(s) ==
    /\ R(s).pc = "except"
    /\ lecture' = IF R(s).conn = "open"
                  THEN UpdateLecture(R(s).lecture_id,
                          [lecture EXCEPT !.status = "failed",
                                          !.search_error_details = ErrorInfo(R(s).exc)])
                  ELSE lecture
    /\ SetRun(s, Logged([R(s) EXCEPT !.pc = "finally"], "failed", 0))
    /\ UNCHANGED <<summarize, persistence, settings, storage_doc, tables, objects>>

\* The handler following the status diagram: 'failed' is written only by a
\* run that has written 'parsing'.
ExceptOnlyAfterParsing(s) ==
    /\ R(s).pc = "except"
    /\ IF /\ R(s).conn = "open"
          /\ \E i \in 1..Len(R(s).log) : R(s).log[i].op = "parsing"
       THEN \E ok \in BOOLEAN :
              IF ok
              THEN /\ lecture' = UpdateLecture(R(s).lecture_id,
                                    [lecture EXCEPT !.status = "failed",
                                        !.search_error_details = ErrorInfo(R(s).exc)])
                   /\ SetRun(s, Logged([R(s) EXCEPT !.pc = "finally",
                                                    !.raised = R(s).exc],
                                       "failed", 0))
              ELSE /\ SetRun(s, [R(s) EXCEPT !.pc = "finally",
                                             !.raised = "status_write"])
                   /\ UNCHANGED lecture
       ELSE /\ SetRun(s, [R(s) EXCEPT !.pc = "finally", !.raised = R(s).exc])
            /\ UNCHANGED lecture
    /\ UNCHANGED <<summarize, persistence, settings, storage_doc, tables, objects>>

\* The handler without its `if conn:` test: the 'failed' write is made on
\* every exception.
ExceptNoConnTest(s) ==
    /\ R(s).pc = "except"
    /\ \E ok \in BOOLEAN :
          IF ok
          THEN /\ lecture' = UpdateLecture(R(s).lecture_id,
                                [lecture EXCEPT !.status = "failed",
                                    !.search_error_details = ErrorInfo(R(s).exc)])
               /\ SetRun(s, Logged([R(s) EXCEPT !.pc = "finally",
                                                !.raised = R(s).exc],
                                   "failed", 0))
          ELSE /\ SetRun(s, [R(s) EXCEPT !.pc = "finally",
                                         !.raised = "status_write"])
               /\ UNCHANGED lecture
    /\ UNCHANGED <<summarize, persistence, settings, storage_doc, tables, objects>>

\* except Exception as e: if conn: update_lecture_status(..., "failed",
\* search_error_details=json.dumps(error_info)); raise.  The status write
\* can raise itself, an Exception or the CancelledError of its await, and
\* then its exception is the one that leaves.
Except(s) ==
    /\ R(s).pc = "except"
    /\ IF R(s).conn = "open"
       THEN \E ok \in BOOLEAN, e \in Exceptions :
              IF ok
              THEN /\ lecture' = UpdateLecture(R(s).lecture_id,
                                    [lecture EXCEPT !.status = "failed",
                                        !.search_error_details = ErrorInfo(R(s).exc)])
                   /\ SetRun(s, Logged([R(s) EXCEPT !.pc = "finally",
                                                    !.raised = R(s).exc],
                                       "failed", 0))
              ELSE /\ SetRun(s, [R(s) EXCEPT !.pc = "finally",
                                             !.raised = "status_write",
                                             !.cancelled = (e = "CancelledError")])
                   /\ UNCHANGED lecture
       ELSE /\ SetRun(s, [R(s) EXCEPT !.pc = "finally", !.raised = R(s).exc])
            /\ UNCHANGED lecture
    /\ UNCHANGED <<summarize, persistence, settings, storage_doc, tables, objects>>

Closed(h) == IF h = "open" THEN "closed" ELSE h

\* `if doc:` is the truth value of the document object: a pymupdf Document
\* has __len__ (its page count) and no __bool__, so a document of no pages
\* is false.
DocTruthy(r) == r.doc = "open" /\ r.total_slides # 0

\* The close calls of the finally block.
CloseSteps == {"doc_close", "s3_close", "conn_close"}

\* The close calls the finally block makes, each of which can raise.
CloseFaults(r) ==
    {"none"} \cup (IF DocTruthy(r) THEN {"doc_close"} ELSE {})
             \cup (IF r.s3_client = "open" THEN {"s3_close"} ELSE {})
             \cup (IF r.conn = "open" THEN {"conn_close"} ELSE {})

\* The exception on its way when the finally block is entered: the one the
\* handler re-raised or raised, or the CancelledError that passed it.
Pending(r) == IF r.raised # "" THEN r.raised ELSE IF r.cancelled THEN r.exc ELSE ""

\* The run after the finally block in which the close named by fault raised
\* e, or none did.
Close(r, fault, e) ==
    [r EXCEPT !.pc = "done",
              !.doc = IF DocTruthy(r) /\ fault # "doc_close" THEN "closed" ELSE @,
              !.s3_client = IF fault \in {"doc_close", "s3_close"} THEN @ ELSE Closed(@),
              !.conn = IF fault = "none" THEN Closed(@) ELSE @,
              !.raised = IF fault = "none" THEN Pending(r) ELSE fault,
              !.cancelled = IF fault = "none" THEN @ ELSE e = "CancelledError",
              !.outcome = IF fault = "none" /\ Pending(r) = "" THEN "returned"
                          ELSE "raised"]

\* A finally block that ends in a return: the exception on its way out is
\* dropped and ingest() returns.
FinallyReturns(s) ==
    /\ R(s).pc = "finally"
    /\ SetRun(s, [R(s) EXCEPT !.pc = "done",
                              !.doc = IF DocTruthy(R(s)) THEN "closed" ELSE @,
                              !.s3_client = Closed(@),
                              !.conn = Closed(@),
                              !.outcome = "returned"])
    /\ UNCHANGED <<summarize, persistence, settings, storage_doc, lecture, tables, objects>>

\* finally: if doc: doc.close(); if s3_client: s3_client.close();
\* if conn: await conn.close(); then ingest() returns or raises.  The closes
\* are made in this order, each can raise, and the one that raises ends the
\* block: its handle and those after it stay open, and its exception takes
\* the place of the one on its way.
Finally(s) ==
    /\ R(s).pc = "finally"
    /\ \E fault \in CloseFaults(R(s)), e \in Exceptions :
          /\ (e = "CancelledError") => (fault = "conn_close")
          /\ SetRun(s, Close(R(s), fault, e))
    /\ UNCHANGED <<summarize, persistence, settings, storage_doc, lecture, tables, objects>>

\* ------------------------------------------------------- specification

\* The steps of a call that has begun.
IngestSteps(s) ==
    \/ ReadPayload(s) \/ CheckDsn(s) \/ ConnectS3(s) \/ ConnectDb(s) \/ VerifyLecture(s)
    \/ ClearErrors(s) \/ Download(s) \/ OpenDoc(s) \/ SetParsing(s)
    \/ LoadPage(s) \/ TxnSlide(s) \/ TxnChunk(s) \/ TxnFullImage(s)
    \/ TxnSubImage(s) \/ TxnEnd(s) \/ TxnAbort(s)
    \/ SubImageCount(s) \/ SetExplaining(s) \/ GetSlides(s)
    \/ PublishExplanation(s) \/ PublishImageAnalysis(s) \/ ImageAnalysisDone(s)
    \/ PublishEmbedding(s)
    \/ Except(s) \/ Finally(s)

Ingest(s) == Start(s) \/ IngestSteps(s)

\* One invocation at a time: the broker delivers a message, and redelivers it
\* or the next one after the call has returned or raised.
Next == Ingest(1)

Spec == Init /\ [][Next]_vars

\* --------------------------------------- the endpoint, handle_ingestion_job

\* A Pub/Sub push request arrives; its message data is what the payload is
\* built from.
HandleRequest(s) ==
    /\ R(s).pc \in {"idle", "responded"}
    /\ \E payload \in Payloads :
          SetRun(s, [IdleRun EXCEPT !.pc = "parse_payload",
                                    !.lecture_id = payload.lecture_id,
                                    !.customer_fields = payload.customer_fields])
    /\ UNCHANGED <<summarize, persistence, settings, storage_doc, lecture, tables, objects>>

\* except Exception as e: raise HTTPException(status_code=500, ...)
Answer500(r, step) == [r EXCEPT !.pc = "responded", !.response = "500", !.exc = step]

\* payload = IngestionPayload(**request.message.data): validation can fail.
ParsePayload(s) ==
    /\ R(s).pc = "parse_payload"
    /\ \E ok \in BOOLEAN :
          SetRun(s, IF ok THEN [R(s) EXCEPT !.pc = "log_payload"]
                          ELSE Answer500(R(s), "parse_payload"))
    /\ UNCHANGED <<summarize, persistence, settings, storage_doc, lecture, tables, objects>>

\* class IngestionPayload(BaseModel): lecture_id: UUID; storage_path: str.
\* The payload object has these attributes and no other, whatever keys the
\* message data holds.
IngestionPayloadFields == {"lecture_id", "storage_path"}

\* The log line that reads payload.customer_identifier, inside the try
\* block, and then `await ingest(payload)`.  The attribute is not one of the
\* payload's: reading it raises AttributeError, the except clause answers
\* 500, and ingest() is not called.
CallIngest(s) ==
    /\ R(s).pc = "log_payload"
    /\ SetRun(s, IF "customer_identifier" \in IngestionPayloadFields
                 THEN [R(s) EXCEPT !.pc = "read_payload",
                                   !.fresh = TablesEmpty,
                                   !.status_before = lecture.status]
                 ELSE Answer500(R(s), "log_payload"))
    /\ UNCHANGED <<summarize, persistence, settings, storage_doc, lecture, tables, objects>>

\* The handler of a request: no step of ingest() is among its steps, since
\* the log line raises before the call.
handle_ingestion_job(s) == HandleRequest(s) \/ ParsePayload(s) \/ CallIngest(s)

\* One request at a time: the broker pushes a message and pushes again after
\* the answer.
NextEndpoint == handle_ingestion_job(1)

SpecEndpoint == Init /\ [][NextEndpoint]_vars

\* ----------------------------------------------------- reading the log

Count(log, op) == Cardinality({i \in DOMAIN log : log[i].op = op})

CountN(log, op, n) == Cardinality({i \in DOMAIN log : log[i] = Ev(op, n)})

PublishOps == {"publish_explanation", "publish_image_analysis", "publish_embedding"}

\* Some event with this op comes before position i.
Before(log, i, op) == \E j \in 1..(i - 1) : log[j].op = op

\* The call ran to the end of the try block.
Completed(r) == r.pc = "done" /\ r.outcome = "returned" /\ ~r.skipped

\* The pages an image hash occurs on.
PagesOf(h) ==
    {p \in DOMAIN storage_doc :
        \E i \in DOMAIN storage_doc[p].images : storage_doc[p].images[i] = h}

DocHashes == {h \in Hashes : PagesOf(h) # {}}

\* ----------------------------------------------------------------- C1

\* C1: in the log of every run, each publish call (explanation, image
\* analysis, embedding) comes after the run's write of status 'explaining'.
C1_ExplainingBeforePublish ==
    \A s \in Slots : \A i \in DOMAIN R(s).log :
        R(s).log[i].op \in PublishOps => Before(R(s).log, i, "explaining")

\* A run that has published an explanation job and an image-analysis job.
C1_Witness ==
    /\ Count(R(1).log, "publish_explanation") > 0
    /\ Count(R(1).log, "publish_image_analysis") > 0

\* ----------------------------------------------------------------- C2

\* C2: whenever the lecture's status is 'explaining', a Slide row exists for
\* every slide number 1..total_slides; and a run writes 'explaining' only
\* after it has committed the transaction of every page.
C2_ExplainingHasAllSlides ==
    /\ lecture.status = "explaining" =>
          \A n \in 1..lecture.total_slides : slides[n] >= 1
    /\ \A s \in Slots : \A i \in DOMAIN R(s).log :
          R(s).log[i].op = "explaining" =>
             \A n \in 1..R(s).total_slides :
                \E j \in 1..(i - 1) : R(s).log[j] = Ev("commit", n)

\* 'explaining' reached by a retry: the lecture had rows when the run began.
C2_Witness ==
    /\ lecture.status = "explaining"
    /\ lecture.total_slides = MaxPages
    /\ ~R(1).fresh
    /\ R(1).pc = "get_slides"

\* ----------------------------------------------------------------- C3

\* The steps of the try block that raise before the connection exists.
ConnectSteps == {"connect_s3", "connect_db"}

\* The steps inside the per-slide transaction.
TxnSteps == {"slide", "chunk", "full_image", "sub_image", "commit", "rollback"}

LastOp(log) == IF log = <<>> THEN "" ELSE log[Len(log)].op

\* C3 as stated: every call that ends by raising, whichever of the steps from
\* the configuration check to job dispatch raised, has written status 'failed'
\* with the error record {service: "ingestion", error: <message>} as its last
\* write before the exception left.
C3_FailedOnAnyException ==
    \A s \in Slots :
        (R(s).pc = "done" /\ R(s).outcome = "raised" /\ R(s).raised # "payload") =>
            /\ LastOp(R(s).log) = "failed"
            /\ R(s).lecture_id = ExistingLecture =>
                  /\ lecture.status = "failed"
                  /\ lecture.search_error_details = ErrorInfo(R(s).raised)

\* The finally block is reached with the handler's re-raise on its way: the
\* handler ran for an Exception and its own write, if made, did not raise.
Handled(r) == r.pc = "finally" /\ r.exc # "" /\ r.raised = r.exc

\* The finally block is reached with a CancelledError that passed the handler.
PassedHandler(r) == r.pc = "finally" /\ r.cancelled /\ r.raised = ""

\* C3, amended: an Exception raised at a step from lecture verification to job
\* dispatch makes the handler write 'failed' with the error record (the write
\* takes effect unless it raises itself) and an exception always leaves ingest;
\* an exception raised before the database connection exists (the
\* configuration check, connecting to storage or database, and before them the
\* reading of the payload) leaves ingest with no status write, and so does a
\* CancelledError raised at an await, which passes the handler.
C3_FailedAfterConnect ==
    \A s \in Slots :
        /\ (R(s).pc = "done" /\ R(s).exc # "") => R(s).outcome = "raised"
        /\ (Handled(R(s)) /\ R(s).exc \notin ConnectSteps) =>
              /\ LastOp(R(s).log) = "failed"
              /\ R(s).lecture_id = ExistingLecture =>
                    /\ lecture.status = "failed"
                    /\ lecture.search_error_details = ErrorInfo(R(s).exc)
        /\ (R(s).pc = "finally" /\ R(s).exc \notin ({""} \cup ConnectSteps)) =>
              \/ Handled(R(s))
              \/ R(s).raised = "status_write"
              \/ PassedHandler(R(s))
        /\ (R(s).raised \in {"payload", "config"} \/ R(s).exc \in ConnectSteps
              \/ PassedHandler(R(s))) =>
              Count(R(s).log, "failed") = 0
        /\ (R(s).pc = "done" /\ R(s).raised \in {"payload", "config"}) =>
              R(s).outcome = "raised"

\* A publish call raised during dispatch and the lecture is 'failed'.
C3_Witness ==
    /\ R(1).pc = "done"
    /\ R(1).exc = "publish_image_analysis"
    /\ R(1).outcome = "raised"
    /\ lecture.status = "failed"
    /\ lecture.search_error_details = ErrorInfo("publish_image_analysis")

\* ----------------------------------------------------------------- C4

\* The call has passed the lecture-exists check without an exception.
PastVerify(r) ==
    /\ r.pc \notin {"idle", "read_payload", "check_dsn", "connect_s3",
                   "connect_db", "verify"}
    /\ r.exc = ""
    /\ r.raised \in ({""} \cup CloseSteps)

C4_SkipState ==
    \A s \in Slots :
        (R(s).lecture_id = MissingLecture /\ PastVerify(R(s))) =>
            /\ R(s).skipped
            /\ R(s).pc \in {"finally", "done"}
            /\ R(s).log = <<>>
            /\ R(s).pc = "done" => (R(s).outcome = "returned" <=> R(s).raised = "")

C4_SkipStep ==
    \A s \in Slots :
        (run[s]' # run[s] /\ run[s]'.lecture_id = MissingLecture) =>
            UNCHANGED <<lecture, slides, chunks, fulls, content_images, objects>>

\* C4: a call with a lecture id that no row has, once the check has found it
\* absent, returns normally (none of its calls raising: it raises only when a
\* close call of the finally block does); it makes no status write, row
\* insert, upload or publish, and no step of it changes the lecture row, a
\* table or the store.
C4_IdempotentSkip == []C4_SkipState /\ [][C4_SkipStep]_vars

\* A skip of a message for a missing lecture, after an earlier run has filled
\* the tables of the existing one.
C4_Witness ==
    /\ R(1).pc = "done"
    /\ R(1).skipped
    /\ R(1).outcome = "returned"
    /\ lecture.status = "explaining"
    /\ slides[1] = 1

\* ----------------------------------------------------------------- C5

\* The chunks and the embedded images of page p of the stored document.
ChunksOf(p) == chunk_text_by_tokens(storage_doc[p].text)
HashesOf(p) == {storage_doc[p].images[i] : i \in DOMAIN storage_doc[p].images}

\* The rows of page p are in the tables.
Persisted(p) ==
    /\ slides[p] >= 1
    /\ p \in fulls
    /\ \A idx \in 0..(Len(ChunksOf(p)) - 1) : chunks[<<p, idx>>] >= 1
    /\ HashesOf(p) \subseteq content_images

\* C5: when the transaction of slide K has failed, the rows of slides
\* 1..K-1 stay persisted, each committed before the failure, no job was
\* published and an exception leaves ingest; the failure being an Exception
\* that the handler caught, the lecture is 'failed' with
\* error_details.service = "ingestion" (the handler's own status write not
\* having raised in turn).  A cancellation of the task, for which the
\* specification states no contract, passes the handler: the rows stay and
\* the lecture stays 'parsing'.
C5_PartialFailure ==
    \A s \in Slots :
        (R(s).pc \in {"rollback", "except", "finally", "done"} /\ R(s).exc \in TxnSteps) =>
            /\ \A p \in 1..R(s).page_index :
                  Persisted(p) /\ CountN(R(s).log, "commit", p) = 1
            /\ \A i \in DOMAIN R(s).log : R(s).log[i].op \notin PublishOps
            /\ R(s).pc = "done" => R(s).outcome = "raised"
            /\ Handled(R(s)) =>
                  /\ lecture.status = "failed"
                  /\ lecture.search_error_details.service = "ingestion"
            /\ PassedHandler(R(s)) =>
                  /\ lecture.status = "parsing"
                  /\ Count(R(s).log, "failed") = 0
            /\ R(s).pc = "finally" =>
                  Handled(R(s)) \/ PassedHandler(R(s)) \/ R(s).raised = "status_write"

\* Slide 2 failed in a run that began on empty tables: slide 1's row is the
\* one this run committed, the lecture is 'failed' and the call raised the
\* exception of the chunk insert.
C5_Witness ==
    /\ R(1).pc = "done"
    /\ R(1).fresh
    /\ R(1).exc = "chunk"
    /\ R(1).raised = "chunk"
    /\ R(1).outcome = "raised"
    /\ R(1).page_index = 1
    /\ slides[1] = 1
    /\ slides[2] = 0
    /\ lecture.status = "failed"
    /\ lecture.search_error_details.service = "ingestion"

\* ----------------------------------------------------------------- C6

\* After a failure inside slide K's transaction, in a run that began on empty
\* tables, no Slide, Chunk or SlideImage row of slide K is in the tables:
\* not while the ROLLBACK is awaited, the inserts still pending, nor after
\* it, whether it succeeded or raised; and no insert is pending outside a
\* transaction.
C6_AbortState ==
    \A s \in Slots :
        /\ ~R(s).in_txn => R(s).txn = EmptyTxn
        /\ R(s).pc = "rollback" => R(s).in_txn
        /\ (R(s).fresh /\ R(s).pc \in {"rollback", "except", "finally", "done"}
                /\ R(s).exc \in TxnSteps) =>
              LET K == R(s).page_index + 1 IN
              /\ slides[K] = 0
              /\ K \notin fulls
              /\ \A idx \in ChunkIdxs : chunks[<<K, idx>>] = 0
              /\ content_images \subseteq UNION {HashesOf(p) : p \in 1..(K - 1)}

\* While a transaction is open the tables change only by its commit.
C6_AbortStep ==
    \A s \in Slots :
        (R(s).in_txn /\ run[s]' # run[s] /\ run[s]'.pc # "loop") =>
            UNCHANGED <<slides, chunks, fulls, content_images>>

\* C6: if a step inside the transaction of slide K fails, none of the rows
\* inserted in that transaction is persisted.
C6_SlideAtomicity == []C6_AbortState /\ [][C6_AbortStep]_vars

\* The second embedded image of slide 2 failed after the slide row, the full
\* image row and a content image row had been inserted in the transaction.
C6_Witness ==
    /\ R(1).pc = "done"
    /\ R(1).fresh
    /\ R(1).exc = "sub_image"
    /\ R(1).page_index = 1
    /\ CountN(R(1).log, "slide", 2) = 1
    /\ CountN(R(1).log, "full_image", 2) = 1
    /\ CountN(R(1).log, "content_image", 2) = 1
    /\ slides[2] = 0
    /\ 2 \notin content_images

\* ----------------------------------------------------------------- C7

\* C7: a call that completes on a lecture without rows, for an N-page
\* document with no embedded image, leaves exactly N Slide rows and N full
\* SlideImage rows, has published N ExplanationJobs (one per slide), one
\* EmbeddingJob and no ImageAnalysisJob, and the status is 'explaining'.
C7_ZeroImageDocument ==
    \A s \in Slots :
        (Completed(R(s)) /\ R(s).fresh /\ DocHashes = {}) =>
            LET N == Len(storage_doc) IN
            /\ \A n \in SlideNos : slides[n] = IF n <= N THEN 1 ELSE 0
            /\ fulls = 1..N
            /\ content_images = {}
            /\ Count(R(s).log, "publish_explanation") = N
            /\ \A n \in 1..N : CountN(R(s).log, "publish_explanation", n) = 1
            /\ Count(R(s).log, "publish_embedding") = 1
            /\ Count(R(s).log, "publish_image_analysis") = 0
            /\ lecture.status = "explaining"

C7_Witness ==
    /\ Completed(R(1))
    /\ R(1).fresh
    /\ DocHashes = {}
    /\ Len(storage_doc) = MaxPages
    /\ Count(R(1).log, "publish_embedding") = 1

\* ----------------------------------------------------------------- C8

\* C8: in one run, every image hash gets at most one upload, one content
\* SlideImage row and one ImageAnalysisJob; a completed run has exactly one
\* row and one job for each hash that occurs in the document, however often
\* it occurs.
C8_Deduplication ==
    \A s \in Slots : \A h \in Hashes :
        /\ CountN(R(s).log, "upload_content", h) <= 1
        /\ CountN(R(s).log, "content_image", h) <= 1
        /\ CountN(R(s).log, "publish_image_analysis", h) <= 1
        /\ Completed(R(s)) =>
              LET one == IF h \in DocHashes THEN 1 ELSE 0 IN
              /\ CountN(R(s).log, "content_image", h) = one
              /\ CountN(R(s).log, "publish_image_analysis", h) = one

\* A completed run on a document with one hash on two pages and another hash
\* twice on one page.
C8_Witness ==
    /\ Completed(R(1))
    /\ \E h \in Hashes : Cardinality(PagesOf(h)) >= 2
    /\ \E p \in DOMAIN storage_doc : \E i, j \in DOMAIN storage_doc[p].images :
          i # j /\ storage_doc[p].images[i] = storage_doc[p].images[j]

\* ----------------------------------------------------------------- C9

\* C9: no run publishes both an ImageAnalysisJob and an EmbeddingJob; a
\* completed run with unique content images has published one
\* ImageAnalysisJob per unique image and no EmbeddingJob, and one without
\* has published exactly one EmbeddingJob and no ImageAnalysisJob.
C9_ImageJobsXorEmbedding ==
    \A s \in Slots :
        LET img == Count(R(s).log, "publish_image_analysis")
            emb == Count(R(s).log, "publish_embedding")
            map == R(s).processed_images_map
        IN /\ ~(img > 0 /\ emb > 0)
           /\ emb <= 1
           /\ Completed(R(s)) =>
                 IF map # {}
                 THEN /\ img = Cardinality(map)
                      /\ \A h \in map : CountN(R(s).log, "publish_image_analysis", h) = 1
                      /\ emb = 0
                 ELSE emb = 1 /\ img = 0

\* A completed run that resolved two unique content images.
C9_Witness ==
    /\ Completed(R(1))
    /\ Cardinality(R(1).processed_images_map) = 2
    /\ Count(R(1).log, "publish_image_analysis") = 2

\* ---------------------------------------------------------------- C10

\* The slide records the dispatch loop has gone through.
Dispatched(r) == {r.slides_for_jobs[i] : i \in 1..r.job_idx}

\* C10: during dispatch, each slide record gone through has exactly one
\* ExplanationJob if it has a full-image path and none if it has not; only a
\* publish call can raise in the loop; a completed run has gone through all
\* records, so each slide with a path has exactly one job.
C10_ExplanationJobPerSlide ==
    \A s \in Slots :
        /\ (R(s).pc = "dispatch" \/ Completed(R(s))) =>
              \A rec \in Dispatched(R(s)) :
                 CountN(R(s).log, "publish_explanation", rec.slide_number)
                    = IF rec.has_path THEN 1 ELSE 0
        /\ (R(s).pc = "except" /\ R(s).exc = "publish_explanation") =>
              R(s).slides_for_jobs[R(s).job_idx + 1].has_path
        /\ Completed(R(s)) =>
              /\ R(s).job_idx = Len(R(s).slides_for_jobs)
              /\ \A n \in SlideNos :
                    CountN(R(s).log, "publish_explanation", n)
                       = IF slides[n] >= 1 /\ n \in fulls THEN 1 ELSE 0

\* A completed run that met a slide without a full-image path, published an
\* explanation job for another slide and the embedding job after it.
C10_Witness ==
    /\ Completed(R(1))
    /\ \E i \in DOMAIN R(1).slides_for_jobs : ~R(1).slides_for_jobs[i].has_path
    /\ Count(R(1).log, "publish_explanation") >= 1
    /\ LastOp(R(1).log) = "publish_embedding"

\* ------------------------------------------------------------------ C11

\* The status values ingest() passes to the lectures table.
CoreStatuses == {"parsing", "explaining", "failed"}

C11_StatusStep ==
    lecture'.status # lecture.status => lecture'.status \in CoreStatuses

\* C11: the only statuses ingest() ever writes are 'parsing', 'explaining'
\* and 'failed': every step that changes lectures.status sets it to one of
\* the three, so the row is never put back to 'queued' and never set to
\* 'complete'.
C11_OnlyCoreStatuses ==
    /\ [](lecture.status \in CoreStatuses \cup {"queued"})
    /\ [][C11_StatusStep]_vars

\* A run that wrote all three statuses, one after the other.
C11_Witness ==
    /\ R(1).pc = "done"
    /\ lecture.status = "failed"
    /\ Count(R(1).log, "parsing") = 1
    /\ Count(R(1).log, "explaining") = 1
    /\ Count(R(1).log, "failed") = 1

\* ------------------------------------------------------------------ C12

\* The statuses a run wrote, in the order it wrote them.
StatusWrites(log) ==
    LET w == SelectSeq(log, LAMBDA e : e.op \in CoreStatuses)
    IN  [i \in 1..Len(w) |-> w[i].op]

StatusSequences ==
    { <<>>, <<"parsing">>, <<"parsing", "explaining">>,
      <<"failed">>, <<"parsing", "failed">>,
      <<"parsing", "explaining", "failed">> }

\* C12: the statuses one run writes form a prefix of (parsing, explaining),
\* optionally followed by a single 'failed', and 'failed' is the last call
\* the run logs: 'explaining' is never written before 'parsing', and nothing
\* is written after 'failed'.
C12_MonotonicStatus ==
    \A s \in Slots :
        /\ StatusWrites(R(s).log) \in StatusSequences
        /\ Count(R(s).log, "failed") = 1 => LastOp(R(s).log) = "failed"

\* A run that wrote parsing, explaining and then failed during dispatch.
C12_Witness ==
    /\ R(1).pc = "done"
    /\ StatusWrites(R(1).log) = <<"parsing", "explaining", "failed">>
    /\ R(1).exc = "publish_explanation"

\* ------------------------------------------------------------------ C13

\* The step is run s' call of set_lecture_parsing taking effect.
WritesTotalSlides(s) ==
    /\ Len(run'[s].log) = Len(R(s).log) + 1
    /\ LastOp(run'[s].log) = "parsing"

C13_FirstWriteOnly ==
    \A s \in Slots : WritesTotalSlides(s) => lecture.total_slides = 0

\* C13 as stated: over any sequence of runs for the lecture, total_slides is
\* written at most once, so a run writes it only while it is still unset.
C13_WrittenAtMostOnce == [][C13_FirstWriteOnly]_vars

C13_State ==
    /\ lecture.total_slides \in {0, Len(storage_doc)}
    /\ \A s \in Slots :
          /\ Count(R(s).log, "parsing") <= 1
          /\ Count(R(s).log, "parsing") = 1 =>
                /\ R(s).total_slides = Len(storage_doc)
                /\ lecture.total_slides = Len(storage_doc)

C13_Step ==
    lecture.total_slides # 0 => lecture'.total_slides = lecture.total_slides

\* C13 amended: one run writes total_slides at most once, together with
\* 'parsing', and the value is the page count of the stored document; every
\* later run that reaches the parsing write writes it again, and for the
\* same stored document the value, once set, never changes.
C13_TotalSlidesStable == []C13_State /\ [][C13_Step]_vars

\* A retry has just written total_slides again: the run before it had
\* reached 'explaining'.
C13_Witness ==
    /\ R(1).status_before = "explaining"
    /\ LastOp(R(1).log) = "parsing"
    /\ lecture.total_slides = Len(storage_doc)

\* ------------------------------------------------------------------ C14

\* The steps between connecting and the effect of set_lecture_parsing.
BeforeParsingSteps == {"verify", "clear_errors", "download", "open", "set_parsing"}

\* C14 as stated: a run writes 'failed' only after it has itself written
\* 'parsing'.
C14_FailedOnlyAfterParsing ==
    \A s \in Slots : \A i \in 1..Len(R(s).log) :
        R(s).log[i].op = "failed" => Before(R(s).log, i, "parsing")

\* C14 amended: a run writes 'failed' only from its handler, holding a
\* database connection, for an Exception of a step after connecting; the
\* write follows the run's 'parsing' write exactly when the step that raised
\* comes after that write, so a failure of verification, error clearing,
\* download, opening or the parsing write itself puts 'failed' over whatever
\* status the lecture had, 'queued' included.
C14_FailedFromAnyStatus ==
    \A s \in Slots :
        /\ Count(R(s).log, "failed") >= 1 =>
              /\ Count(R(s).log, "failed") = 1
              /\ R(s).conn # "none"
              /\ R(s).exc # ""
              /\ R(s).exc \notin ConnectSteps
              /\ (Count(R(s).log, "parsing") = 1) <=> (R(s).exc \notin BeforeParsingSteps)
        /\ (Handled(R(s)) /\ R(s).exc \in BeforeParsingSteps) =>
              /\ StatusWrites(R(s).log) = <<"failed">>
              /\ R(s).lecture_id = ExistingLecture => lecture.status = "failed"

\* The lecture went from 'queued' to 'failed': the run found it queued, its
\* download failed, and it wrote 'failed' having never written 'parsing'.
C14_Witness ==
    /\ R(1).pc = "done"
    /\ R(1).status_before = "queued"
    /\ R(1).exc = "download"
    /\ StatusWrites(R(1).log) = <<"failed">>
    /\ lecture.status = "failed"

\* ------------------------------------------------------------------ C15

\* No row was inserted and nothing uploaded or published by the run.
NothingProduced(r) ==
    \A i \in 1..Len(r.log) :
        r.log[i].op \notin PublishOps \cup
            {"slide", "chunk", "full_image", "content_image", "commit",
             "upload_full", "upload_content"}

\* C15: when the download of storage_path fails for a lecture that exists,
\* ingest() raises to the caller, no slide row is created (the tables are as
\* the run found them) and no job is published; the handler writes 'failed'
\* with the ingestion error record, and unless that write raises itself the
\* lecture's status ends as 'failed'.
C15_DownloadFailure ==
    \A s \in Slots :
        R(s).exc = "download" =>
            /\ R(s).lecture_id = ExistingLecture
            /\ NothingProduced(R(s))
            /\ R(s).fresh => TablesEmpty
            /\ Count(R(s).log, "parsing") = 0
            /\ R(s).pc = "done" =>
                  /\ R(s).outcome = "raised"
                  /\ R(s).raised = "download" =>
                        /\ lecture.status = "failed"
                        /\ lecture.search_error_details = ErrorInfo("download")

\* The first run for a lecture ended on a failed download.
C15_Witness ==
    /\ R(1).pc = "done"
    /\ R(1).exc = "download"
    /\ R(1).raised = "download"
    /\ R(1).fresh
    /\ R(1).status_before = "queued"
    /\ lecture.status = "failed"

\* ------------------------------------------------------------------ C16

\* What a finished run had acquired, read from where it stopped.
S3Acquired(r) == r.raised \notin {"payload", "config"} /\ r.exc # "connect_s3"

ConnAcquired(r) == S3Acquired(r) /\ r.exc # "connect_db"

DocAcquired(r) ==
    /\ ConnAcquired(r)
    /\ ~r.skipped
    /\ r.exc \notin {"verify", "clear_errors", "download", "open"}

Released(h, acquired) == h = (IF acquired THEN "closed" ELSE "none")

\* C16: when ingest() has returned or raised, on whatever path (skip,
\* success, a failure at any step, a failure of the 'failed' write itself),
\* the storage client, the database connection and the document handle are
\* closed if the run acquired them and untouched if it did not.
C16_GuaranteedRelease ==
    \A s \in Slots :
        R(s).pc = "done" =>
            /\ Released(R(s).s3_client, S3Acquired(R(s)))
            /\ Released(R(s).conn, ConnAcquired(R(s)))
            /\ Released(R(s).doc, DocAcquired(R(s)))

\* ------------------------------------------------------------------ C17

\* The run is at the download, or past it inside the try block.
AtOrPastDownload(r) ==
    \/ r.pc \in {"download", "open", "set_parsing"}
    \/ Count(r.log, "parsing") >= 1

\* C17: a run that has passed verification clears the lecture's error
\* fields first of all, before the download and before the parsing write;
\* from then until the run fails, so whenever it has written 'parsing' or
\* 'explaining' and not 'failed', both error fields are empty, whatever an
\* earlier failed run left in them.
C17_StaleErrorsCleared ==
    \A s \in Slots :
        AtOrPastDownload(R(s)) =>
            /\ Count(R(s).log, "clear_errors") = 1
            /\ R(s).log[1].op = "clear_errors"
            /\ Count(R(s).log, "failed") = 0 =>
                  /\ lecture.search_error_details = NoError
                  /\ ~lecture.explanation_error_details

\* The run found the lecture 'failed' with the error record of an earlier
\* run, and has written 'explaining'.
C17_Witness ==
    /\ R(1).status_before = "failed"
    /\ R(1).pc = "get_slides"
    /\ lecture.status = "explaining"
    /\ lecture.search_error_details = NoError

\* ------------------------------------------------------------------ C18

\* The lecture was absent: the run returned having written nothing.
SkipOutcome(r) == r.skipped /\ r.outcome = "returned" /\ r.log = <<>>

\* The run went through the whole try block: every page is persisted, the
\* status is 'explaining', every slide record was gone through and the image
\* analysis jobs, or the embedding job, are out.
CompleteOutcome(r) ==
    /\ Completed(r)
    /\ r.page_index = Len(storage_doc)
    /\ \A p \in 1..Len(storage_doc) : Persisted(p)
    /\ lecture.status = "explaining"
    /\ r.job_idx = Len(r.slides_for_jobs)
    /\ IF r.total_sub_images > 0
          THEN Count(r.log, "publish_image_analysis") = Len(r.image_analysis_jobs)
          ELSE Count(r.log, "publish_embedding") = 1

\* The run raised and its last call was the 'failed' write.
FailedOutcome(r) ==
    /\ r.outcome = "raised"
    /\ LastOp(r.log) = "failed"
    /\ r.lecture_id = ExistingLecture => lecture.status = "failed"

One(b) == IF b THEN 1 ELSE 0

\* C18 as stated: a finished run is exactly one of a skip, a full completion
\* and a failure with 'failed' written.  (Runs that raise on reading the
\* payload are left aside.)
C18_ThreeOutcomes ==
    \A s \in Slots :
        (R(s).pc = "done" /\ R(s).raised # "payload") =>
            One(SkipOutcome(R(s))) + One(CompleteOutcome(R(s)))
                + One(FailedOutcome(R(s))) = 1

\* The status the lecture has after the run's writes.
StatusLeft(r) ==
    IF StatusWrites(r.log) = <<>> THEN r.status_before
    ELSE StatusWrites(r.log)[Len(StatusWrites(r.log))]

\* The lecture was absent and nothing was written.
Skipped(r) == r.skipped /\ r.exc = "" /\ r.log = <<>>

\* The try block was gone through to its end: every page is persisted, the
\* status is 'explaining' and the jobs are out.
RanThrough(r) ==
    /\ ~r.skipped /\ r.exc = "" /\ r.raised \notin {"payload", "config"}
    /\ r.page_index = Len(storage_doc)
    /\ \A p \in 1..Len(storage_doc) : Persisted(p)
    /\ lecture.status = "explaining"
    /\ r.job_idx = Len(r.slides_for_jobs)
    /\ IF r.total_sub_images > 0
          THEN Count(r.log, "publish_image_analysis") = Len(r.image_analysis_jobs)
          ELSE Count(r.log, "publish_embedding") = 1

\* A step raised and no 'failed' write took effect.
Unrecorded(r) ==
    /\ r.outcome = "raised"
    /\ Count(r.log, "failed") = 0
    /\ r.raised \in {"payload", "config"} \/ r.exc # ""

\* C18 amended: a finished run is exactly one of four: a skip, a full
\* completion, a failure with 'failed' written, and a failure with no
\* 'failed' write in effect (raised before the database connection existed,
\* the handler's own write raised, or a CancelledError passed the handler);
\* in the last case the lecture keeps the status the run last wrote, or
\* found.  ingest() returns exactly after a skip or a completion whose
\* finally block raised nothing, and raises otherwise.  A run that has
\* begun and not finished always has a next step.
C18_FourOutcomes ==
    /\ R(1).pc \notin {"idle", "done"} => ENABLED Ingest(1)
    /\ \A s \in Slots :
          /\ R(s).pc = "done" =>
                /\ One(Skipped(R(s))) + One(RanThrough(R(s)))
                      + One(FailedOutcome(R(s))) + One(Unrecorded(R(s))) = 1
                /\ Unrecorded(R(s)) => lecture.status = StatusLeft(R(s))
                /\ (R(s).outcome = "returned") <=>
                      /\ Skipped(R(s)) \/ RanThrough(R(s))
                      /\ R(s).raised \notin CloseSteps
          /\ (R(s).pc = "finally" /\ R(s).exc # "" /\ Count(R(s).log, "failed") = 0) =>
                \/ R(s).exc \in ConnectSteps /\ Handled(R(s))
                \/ R(s).raised = "status_write"
                \/ PassedHandler(R(s))

\* A run over, the lecture left in 'parsing': a slide's transaction failed
\* and then the handler's 'failed' write raised.
C18_Witness ==
    /\ R(1).pc = "done"
    /\ R(1).raised = "status_write"
    /\ R(1).exc \in TxnSteps
    /\ R(1).status_before = "queued"
    /\ lecture.status = "parsing"

\* ------------------------------------------------------------------ C19

\* C19: however often the lecture is ingested again, there is at most one
\* slide row per slide number and at most one chunk row per slide number and
\* chunk index.
C19_UniqueSlidesAndChunks ==
    /\ \A n \in SlideNos : slides[n] <= 1
    /\ \A c \in SlideNos \X ChunkIdxs : chunks[c] <= 1

\* C19 for helpers that get or create: a retry finds the rows an earlier run
\* committed and does not insert them again.  For helpers that insert, the
\* loop, which restarts at page 0, adds a row for every slide it commits.
C19_UniqueIfGetOrCreate ==
    /\ persistence = "get_or_create" => C19_UniqueSlidesAndChunks
    /\ persistence = "insert" =>
          \A s \in Slots : \A p \in 1..R(s).page_index :
             CountN(R(s).log, "slide", p) = 1

\* A retry has completed after a run that committed slide 1, with a chunk,
\* and failed on slide 2: it found slide 1 and created slide 2.
C19_Witness ==
    /\ persistence = "get_or_create"
    /\ Completed(R(1))
    /\ R(1).status_before = "failed"
    /\ Len(storage_doc) = 2
    /\ CountN(R(1).log, "slide", 1) = 0
    /\ CountN(R(1).log, "slide", 2) = 1
    /\ slides[1] = 1 /\ slides[2] = 1
    /\ chunks[<<1, 0>>] = 1

\* The same retry with helpers that insert: slide 1 has two rows.
C19_Duplicated ==
    /\ persistence = "insert"
    /\ Completed(R(1))
    /\ R(1).status_before = "failed"
    /\ Len(storage_doc) = 2
    /\ slides[1] = 2 /\ slides[2] = 1

\* ------------------------------------------------------------------ C20

\* The operations of a slide's transaction that carry the slide number.
SlideOps == {"slide", "chunk", "upload_full", "full_image"}

CommitsBefore(log, i) == Cardinality({j \in 1..(i - 1) : log[j].op = "commit"})

\* C20: the pages of a run are processed strictly one after the other: the
\* transactions commit in the order 1, 2, ..., every call inside slide K's
\* transaction comes after the commit of slide K-1, slide rows are created
\* in increasing slide number, and the only uncommitted rows at any time are
\* those of the one slide in progress.
C20_SequentialPages ==
    \A s \in Slots :
        LET r == R(s)
            log == r.log
        IN  /\ Count(log, "commit") = r.page_index
            /\ \A i \in 1..Len(log) :
                  /\ log[i].op = "commit" => log[i].n = CommitsBefore(log, i) + 1
                  /\ log[i].op \in SlideOps => log[i].n = CommitsBefore(log, i) + 1
            /\ \A i, j \in 1..Len(log) :
                  (i < j /\ log[i].op = "slide" /\ log[j].op = "slide") =>
                      log[i].n < log[j].n
            /\ r.txn.slides \subseteq {r.page_index + 1}
            /\ r.txn.fulls \subseteq {r.page_index + 1}
            /\ \A c \in r.txn.chunks : c[1] = r.page_index + 1
            /\ ~r.in_txn => r.txn = EmptyTxn

\* Slide 2's transaction is open, with its slide row pending, after the
\* commit of slide 1.
C20_Witness ==
    /\ R(1).in_txn
    /\ R(1).page_index = 1
    /\ R(1).txn.slides = {2}
    /\ CountN(R(1).log, "commit", 1) = 1
    /\ CountN(R(1).log, "slide", 1) = 1

\* ------------------------------------------------------------------ C21

\* The hashes the run itself has uploaded.
UploadedByRun(r) == {h \in Hashes : CountN(r.log, "upload_content", h) >= 1}

\* C21: the dedup map belongs to one run: it holds only hashes that run has
\* uploaded, and all of them but one whose row insert raised after the
\* upload (the rollback that follows can raise in turn), so it is empty when
\* a run begins, whatever rows and objects
\* earlier runs left; a completed run has uploaded each unique hash of its
\* document once and published one ImageAnalysisJob for it, also when an
\* earlier run already stored that image.
C21_MapScopedToRun ==
    \A s \in Slots :
        /\ R(s).processed_images_map \subseteq UploadedByRun(R(s))
        /\ R(s).exc \notin {"sub_image", "rollback"} =>
              R(s).processed_images_map = UploadedByRun(R(s))
        /\ Cardinality(UploadedByRun(R(s)) \ R(s).processed_images_map) <= 1
        /\ Completed(R(s)) =>
              \A h \in DocHashes :
                 /\ CountN(R(s).log, "upload_content", h) = 1
                 /\ CountN(R(s).log, "publish_image_analysis", h) = 1

\* A second run has completed on a lecture that an earlier run had brought
\* to 'explaining': the content rows were there already, and it uploaded each
\* hash and published its job again.
C21_Witness ==
    /\ Completed(R(1))
    /\ R(1).status_before = "explaining"
    /\ DocHashes # {}
    /\ \A h \in DocHashes :
          /\ h \in content_images
          /\ CountN(R(1).log, "upload_content", h) = 1
          /\ CountN(R(1).log, "publish_image_analysis", h) = 1

\* ------------------------------------------------------------------ C22

\* C22: the run writes the sub-image count once at most; the value is the
\* number of unique content-image hashes the run resolved, which is the
\* number of distinct hashes in the document and not the number of
\* occurrences; the write comes after the commit of the last slide and
\* before the 'explaining' write, and until the next run the lecture holds
\* that value.
C22_SubImageCount ==
    \A s \in Slots :
        LET log == R(s).log IN
        /\ Count(log, "sub_image_count") <= 1
        /\ \A i \in 1..Len(log) :
              /\ log[i].op = "sub_image_count" =>
                    /\ log[i].n = Cardinality(UploadedByRun(R(s)))
                    /\ log[i].n = Cardinality(DocHashes)
                    /\ CommitsBefore(log, i) = Len(storage_doc)
                    /\ Count(log, "commit") = Len(storage_doc)
                    /\ ~Before(log, i, "explaining")
                    /\ lecture.sub_image_count = log[i].n
              /\ log[i].op = "explaining" => Before(log, i, "sub_image_count")

\* The count is written, 'explaining' not yet, for a document in which a
\* hash occurs more than once.
C22_Witness ==
    /\ R(1).pc = "set_explaining"
    /\ LastOp(R(1).log) = "sub_image_count"
    /\ lecture.sub_image_count = Cardinality(DocHashes)
    /\ Cardinality(DocHashes) = 2
    /\ \E h \in Hashes : Cardinality(PagesOf(h)) >= 2

\* ------------------------------------------------- concurrent deliveries

\* The documents of the two-delivery specification: one page with text and
\* an embedded image, or one page with neither.
ConcDocs == { <<[text |-> 1, images |-> <<1>>]>>, <<[text |-> 0, images |-> <<>>]>> }

\* Two deliveries for a lecture nothing has been stored for yet.
InitConc ==
    /\ persistence = "get_or_create"
    /\ settings = [postgres_dsn |-> TRUE]
    /\ storage_doc \in ConcDocs
    /\ lecture = InitLecture(FALSE)
    /\ slides = [n \in SlideNos |-> 0]
    /\ chunks = [c \in SlideNos \X ChunkIdxs |-> 0]
    /\ fulls = {}
    /\ content_images = {}
    /\ objects = {}
    /\ run = [s \in Slots |-> IdleRun]
    /\ NoSummarize

\* Each delivery is one call of ingest(); the event loop interleaves the two
\* calls at their awaits.
NextConc == \E s \in Slots : R(s).pc # "done" /\ Ingest(s)

SpecConc == InitConc /\ [][NextConc]_vars

\* ------------------------------------------------------------------ C23

\* The run is inside its per-slide loop: a page is still to come or the
\* transaction of one is open.
InLoop(r) ==
    \/ r.pc = "loop" /\ MorePages(r)
    \/ r.pc \in {"txn_slide", "txn_chunks", "txn_images", "rollback"}

\* The other call has written 'explaining' and published a job.
HasPublished(r) ==
    Count(r.log, "explaining") >= 1 /\ Count(r.log, "publish_explanation") >= 1

\* The step in which call s writes 'parsing'.
WritesParsing(s) == R(s).pc = "set_parsing" /\ run[s]'.pc = "loop"

\* C23 as stated, the three situations in one state: in the step in which
\* one call writes 'parsing' after the other has written 'explaining' and
\* published jobs, both calls are inside their per-slide loops.
C23_AllAtOnce ==
    [][\A s, o \in Slots :
          (s # o /\ WritesParsing(s) /\ HasPublished(R(o))) =>
              InLoop(run[s]') /\ InLoop(R(o))]_vars

\* C23 amended, in every state: a call inside its loop has not written
\* 'explaining' nor published, so while both calls are inside their loops
\* neither has.
C23_State ==
    \A s \in Slots :
        InLoop(R(s)) =>
            /\ Count(R(s).log, "parsing") = 1
            /\ Count(R(s).log, "explaining") = 0
            /\ \A i \in DOMAIN R(s).log : R(s).log[i].op \notin PublishOps

\* C23 amended, in every step: the 'parsing' write of a call is not fenced,
\* it takes effect whatever the other call has done, also after the other
\* has written 'explaining' and published; the other call has then left its
\* loop; and a call writes 'parsing' once.
C23_Step ==
    \A s, o \in Slots :
        (s # o /\ WritesParsing(s)) =>
            /\ lecture'.status = "parsing"
            /\ lecture'.total_slides = R(s).total_slides
            /\ Count(R(s).log, "parsing") = 0
            /\ HasPublished(R(o)) => ~InLoop(R(o))

\* C23 amended: two calls for one lecture are not mutually excluded.  Both
\* can be inside their per-slide loops at once, their transactions open at
\* the same time; and a call can write 'parsing' after the other has written
\* 'explaining' and published jobs, the write taking effect.  The two do not
\* happen together: the second needs the other call past its loop.
C23_NoMutualExclusion == []C23_State /\ [][C23_Step]_vars

\* Both calls, for the same lecture, are inside the transaction of slide 1
\* at the same time, each with its own uncommitted slide row.
C23_Witness ==
    /\ R(1).lecture_id = ExistingLecture /\ R(2).lecture_id = ExistingLecture
    /\ InLoop(R(1)) /\ InLoop(R(2))
    /\ R(1).in_txn /\ R(2).in_txn
    /\ R(1).txn.slides = {1} /\ R(2).txn.slides = {1}

\* ------------------------------------------------------------------ C24

\* C24: a request whose handling is over was answered with 204 exactly when
\* ingest() was called and returned normally, the lecture-not-found skip
\* included, and with 500 exactly when building the payload or ingest()
\* raised.
C24_AckIffReturned ==
    \A s \in Slots :
        R(s).pc = "responded" =>
            /\ (R(s).response = "204") <=> (R(s).outcome = "returned")
            /\ (R(s).response = "500") <=>
                  (R(s).exc = "parse_payload" \/ R(s).outcome = "raised")

\* ------------------------------------------------------------------ C25

\* The chunk indexes stored for slide p.
StoredChunkIdxs(p) == {idx \in ChunkIdxs : chunks[<<p, idx>>] >= 1}

\* C25, the part ingest() decides: the chunks the chunker returns for a page
\* are stored under the indexes 0, 1, 2, ... in chunker order: the
\* transaction of the slide in progress holds only indexes below the number
\* of chunks gone through, and a committed slide has exactly the indexes
\* 0..k-1 of its k chunks, whichever run committed it.  Determinism, the cap
\* and the empty text are the chunker's own, in text_processing.py.
C25_StoredIndexes ==
    \A s \in Slots :
        /\ R(s).chunk_idx <= MaxChunks
        /\ \A c \in R(s).txn.chunks :
              c[1] = R(s).page_index + 1 /\ c[2] < R(s).chunk_idx
        /\ \A p \in 1..R(s).page_index :
              StoredChunkIdxs(p) = 0..(Len(ChunksOf(p)) - 1)

\* A run has committed a slide of two chunks, stored as chunks 0 and 1, and
\* a slide with no text, stored without chunks.
C25_Witness ==
    /\ R(1).page_index = 2
    /\ \E p, q \in 1..2 :
          /\ Len(ChunksOf(p)) = 2 /\ StoredChunkIdxs(p) = {0, 1}
          /\ storage_doc[q].text = 0 /\ StoredChunkIdxs(q) = {}

\* ------------------------------------------- any status at the beginning

\* The statuses a lecture row can hold, written by this service or another.
LectureStatuses == {"queued", "parsing", "explaining", "complete", "failed"}

\* A lecture in any status, nothing stored for it: the database states the
\* runs begin on differ in the status alone.
InitAnyStatus ==
    /\ persistence = "get_or_create"
    /\ settings = [postgres_dsn |-> TRUE]
    /\ storage_doc \in Docs
    /\ \E st \in LectureStatuses : lecture = [InitLecture(FALSE) EXCEPT !.status = st]
    /\ slides = [n \in SlideNos |-> 0]
    /\ chunks = [c \in SlideNos \X ChunkIdxs |-> 0]
    /\ fulls = {}
    /\ content_images = {}
    /\ objects = {}
    /\ run = [s \in Slots |-> IdleRun]
    /\ NoSummarize

SpecAnyStatus == InitAnyStatus /\ [][Next]_vars

\* ------------------------------------------------------------------ C26

\* The calls of a run that meets no failure, on a lecture with no rows yet,
\* worked out from the document alone.
RECURSIVE ImagesLog(_, _, _)
ImagesLog(imgs, i, seen) ==
    IF i > Len(imgs) THEN <<>>
    ELSE IF imgs[i] \in seen THEN ImagesLog(imgs, i + 1, seen)
    ELSE <<Ev("upload_content", imgs[i]), Ev("content_image", imgs[i])>>
         \o ImagesLog(imgs, i + 1, seen \cup {imgs[i]})

RECURSIVE PagesLog(_, _)
PagesLog(p, seen) ==
    IF p > Len(storage_doc) THEN <<>>
    ELSE <<Ev("slide", p)>>
         \o [i \in 1..Len(ChunksOf(p)) |-> Ev("chunk", p)]
         \o <<Ev("upload_full", p), Ev("full_image", p)>>
         \o ImagesLog(storage_doc[p].images, 1, seen)
         \o <<Ev("commit", p)>>
         \o PagesLog(p + 1, seen \cup HashesOf(p))

\* The ImageAnalysisJobs: one per hash, in the order of first occurrence.
ImageJobsLog ==
    LET ups == SelectSeq(PagesLog(1, {}), LAMBDA e : e.op = "upload_content")
    IN  [i \in 1..Len(ups) |-> Ev("publish_image_analysis", ups[i].n)]

FullLog ==
    <<Ev("clear_errors", 0), Ev("parsing", 0)>>
    \o PagesLog(1, {})
    \o <<Ev("sub_image_count", Cardinality(DocHashes)), Ev("explaining", 0)>>
    \o [p \in 1..Len(storage_doc) |-> Ev("publish_explanation", p)]
    \o (IF DocHashes # {} THEN ImageJobsLog ELSE <<Ev("publish_embedding", 0)>>)

IsPrefix(a, b) == Len(a) <= Len(b) /\ a = SubSeq(b, 1, Len(a))

\* The log without a final 'failed' write.
BeforeFailed(log) ==
    IF LastOp(log) = "failed" THEN SubSeq(log, 1, Len(log) - 1) ELSE log

\* The step is run s' call of set_lecture_parsing returning.
PassesSetParsing(s) == R(s).pc = "set_parsing" /\ run'[s].pc = "loop"

C26_State ==
    \A s \in Slots :
        (R(s).fresh /\ R(s).lecture_id = ExistingLecture) =>
            /\ IsPrefix(BeforeFailed(R(s).log), FullLog)
            /\ Completed(R(s)) => R(s).log = FullLog

C26_Step ==
    \A s \in Slots :
        PassesSetParsing(s) =>
            /\ LastOp(run'[s].log) = "parsing"
            /\ lecture'.status = "parsing"

\* C26: what a run does is not a matter of the status it finds.  Started on
\* a lecture with no rows, in whichever of the five statuses, a run makes
\* the calls that the document alone determines, up to where it fails; a run
\* that completes makes all of them; and every run that gets through
\* set_lecture_parsing has written 'parsing', over 'explaining' and
\* 'complete' as over any other status.
C26_StatusNotRead == []C26_State /\ [][C26_Step]_vars

\* A run found the lecture 'complete', wrote 'parsing' over it and went on to
\* complete with the same calls as on a queued lecture.
C26_Witness ==
    /\ Completed(R(1))
    /\ R(1).fresh
    /\ R(1).status_before = "complete"
    /\ Len(storage_doc) = 2
    /\ R(1).log = FullLog
    /\ lecture.status = "explaining"

\* ------------------------------------------------------------------ C27

\* The run stopped at the configuration check or at asyncpg.connect.
NoConnection(r) == r.raised = "config" \/ r.exc = "connect_db"

\* C27: when the Postgres DSN is not set, or the database connection is not
\* established, the run makes no call that writes: no status, 'failed'
\* included, no row, no upload, no job; the lecture keeps the status the run
\* found, and ingest() raises to its caller: the handler re-raises the
\* exception of the connect with no write, or the connect's CancelledError
\* passes the handler.
C27_NoConnectionNoWrite ==
    \A s \in Slots :
        NoConnection(R(s)) =>
            /\ R(s).log = <<>>
            /\ R(s).conn = "none"
            /\ lecture.status = R(s).status_before
            /\ R(s).fresh => TablesEmpty
            /\ R(s).pc = "done" => R(s).outcome = "raised"
            /\ R(s).pc = "finally" => Handled(R(s)) \/ PassedHandler(R(s))

\* The database connection failed on a retry of a lecture left 'failed': the
\* run raised and the status is as it was.
C27_Witness ==
    /\ R(1).pc = "done"
    /\ R(1).exc = "connect_db"
    /\ R(1).s3_client = "closed"
    /\ R(1).status_before = "failed"
    /\ lecture.status = "failed"

\* --------------------------------------------- a delivery and its retry

\* The documents of the redelivery scenario: pages of text with or without
\* one embedded image.
RetryDocs ==
    UNION { [1..n -> { [text |-> 3, images |-> <<>>], [text |-> 1, images |-> <<1>>] }]
               : n \in 0..MaxPages }

\* A message delivered for a lecture with nothing stored yet.
InitRetry ==
    /\ persistence = "get_or_create"
    /\ settings = [postgres_dsn |-> TRUE]
    /\ storage_doc \in RetryDocs
    /\ lecture = InitLecture(FALSE)
    /\ slides = [n \in SlideNos |-> 0]
    /\ chunks = [c \in SlideNos \X ChunkIdxs |-> 0]
    /\ fulls = {}
    /\ content_images = {}
    /\ objects = {}
    /\ run = [s \in Slots |-> IdleRun]
    /\ NoSummarize

\* The first call runs to its end; then the broker delivers the message
\* again, as it does when the first call raised and the message was not
\* acknowledged, and the second call runs.  The first call's record stays
\* for comparison.
NextRetry ==
    \/ R(2).pc # "done" /\ Ingest(2)
    \/ R(2).pc = "done" /\ R(1).pc # "done" /\ Ingest(1)

SpecRetry == InitRetry /\ [][NextRetry]_vars

\* The same two deliveries, the persistence helpers being of either kind.
InitRedelivery ==
    /\ persistence \in PersistenceKinds
    /\ settings = [postgres_dsn |-> TRUE]
    /\ storage_doc \in RetryDocs
    /\ lecture = InitLecture(FALSE)
    /\ slides = [n \in SlideNos |-> 0]
    /\ chunks = [c \in SlideNos \X ChunkIdxs |-> 0]
    /\ fulls = {}
    /\ content_images = {}
    /\ objects = {}
    /\ run = [s \in Slots |-> IdleRun]
    /\ NoSummarize

SpecRedelivery == InitRedelivery /\ [][NextRetry]_vars

\* ------------------------------------------------------------------ C28

DispatchSteps == {"publish_explanation", "publish_image_analysis", "publish_embedding"}

\* The call raised at a publish and its 'failed' write took effect.
FailedInDispatch(r) ==
    r.pc = "done" /\ r.exc \in DispatchSteps /\ r.raised = r.exc

\* The ExplanationJobs slide p has received from both calls.
ExplanationJobs(p) ==
    CountN(R(1).log, "publish_explanation", p) + CountN(R(2).log, "publish_explanation", p)

\* C28: a call in which a publish fails writes 'failed' after 'explaining'
\* and raises; all its slides stay committed and what it had published is
\* not taken back.  While nothing has run since, the lecture is 'failed'.
\* The retry, when it completes, publishes an ExplanationJob for every slide
\* again, so a slide the first call had published for has two.
C28_DispatchFailureAndRetry ==
    /\ \A s \in Slots :
          FailedInDispatch(R(s)) =>
             /\ R(s).outcome = "raised"
             /\ StatusWrites(R(s).log) = <<"parsing", "explaining", "failed">>
             /\ \A p \in 1..Len(storage_doc) : Persisted(p)
    /\ (FailedInDispatch(R(2)) /\ R(1).pc = "idle") => lecture.status = "failed"
    /\ (FailedInDispatch(R(2)) /\ Completed(R(1))) =>
          \A p \in 1..Len(storage_doc) :
             /\ CountN(R(1).log, "publish_explanation", p) = 1
             /\ ExplanationJobs(p) = 1 + CountN(R(2).log, "publish_explanation", p)

\* The first call published the job of slide 1 and failed publishing that
\* of slide 2; the retry completed: slide 1 has two ExplanationJobs, slide 2
\* one.
C28_Witness ==
    /\ FailedInDispatch(R(2))
    /\ R(2).exc = "publish_explanation"
    /\ Completed(R(1))
    /\ R(1).status_before = "failed"
    /\ Len(storage_doc) = 2
    /\ ExplanationJobs(1) = 2
    /\ ExplanationJobs(2) = 1

\* ------------------------------------- a lecture ingested once before

\* The lecture as a completed run on a document of MaxPages pages without
\* text or images leaves it; the document now stored for it may be another,
\* shorter one.
InitReingest ==
    /\ persistence = "get_or_create"
    /\ settings = [postgres_dsn |-> TRUE]
    /\ storage_doc \in Docs
    /\ lecture = [InitLecture(FALSE) EXCEPT !.status = "explaining",
                                            !.total_slides = MaxPages]
    /\ slides = [n \in SlideNos |-> 1]
    /\ chunks = [c \in SlideNos \X ChunkIdxs |-> 0]
    /\ fulls = SlideNos
    /\ content_images = {}
    /\ objects = {FullKey(n) : n \in SlideNos}
    /\ run = [s \in Slots |-> IdleRun]
    /\ NoSummarize

SpecReingest == InitReingest /\ [][Next]_vars

\* The state InitReingest describes, as the end of a run.
AfterPlainIngest ==
    /\ Completed(R(1))
    /\ lecture = [InitLecture(FALSE) EXCEPT !.status = "explaining",
                                            !.total_slides = MaxPages]
    /\ slides = [n \in SlideNos |-> 1]
    /\ chunks = [c \in SlideNos \X ChunkIdxs |-> 0]
    /\ fulls = SlideNos
    /\ content_images = {}
    /\ objects = {FullKey(n) : n \in SlideNos}

\* ------------------------------------------------------------------ C29

\* C29: every ExplanationJob of a run is published after the run's parsing
\* write, with the total_slides of that write, which is the page count of
\* the run's document, and for a slide number in 1..total_slides; a
\* completed run has published as many ExplanationJobs as its document has
\* pages, also when slide rows of an earlier run were there.
C29_ExplanationJobsMatchDocument ==
    \A s \in Slots :
        /\ \A i \in 1..Len(R(s).log) :
              R(s).log[i].op = "publish_explanation" =>
                 /\ Before(R(s).log, i, "parsing")
                 /\ R(s).total_slides = Len(storage_doc)
                 /\ R(s).log[i].n \in 1..R(s).total_slides
        /\ Completed(R(s)) =>
              Count(R(s).log, "publish_explanation") = Len(storage_doc)

\* The slide has a row with a full image.
HasStoredImage(n) == slides[n] >= 1 /\ n \in fulls

\* C29 amended: every ExplanationJob of a run is published after the run's
\* parsing write, with the total_slides of that write, the page count of the
\* run's document, and for a slide row stored with a full image; a completed
\* run has published one job per such row, the rows of its own pages among
\* them, so the number of jobs is the page count exactly when no stored
\* slide with an image has a number above it, and more otherwise.
C29_JobsFromStoredRows ==
    \A s \in Slots :
        /\ \A i \in 1..Len(R(s).log) :
              R(s).log[i].op = "publish_explanation" =>
                 /\ Before(R(s).log, i, "parsing")
                 /\ R(s).total_slides = Len(storage_doc)
                 /\ HasStoredImage(R(s).log[i].n)
        /\ Completed(R(s)) =>
              /\ \A n \in SlideNos :
                    CountN(R(s).log, "publish_explanation", n)
                       = (IF HasStoredImage(n) THEN slides[n] ELSE 0)
              /\ \A n \in 1..Len(storage_doc) : HasStoredImage(n)
              /\ (Count(R(s).log, "publish_explanation") = Len(storage_doc))
                    <=> ~\E n \in SlideNos : n > Len(storage_doc) /\ HasStoredImage(n)

\* The lecture had been ingested from a longer document; the run on the
\* one-page document completed and published a job for slide 2 with
\* total_slides = 1.
C29_Witness ==
    /\ Completed(R(1))
    /\ Len(storage_doc) = 1
    /\ R(1).total_slides = 1
    /\ CountN(R(1).log, "publish_explanation", 1) = 1
    /\ CountN(R(1).log, "publish_explanation", 2) = 1


\* -------------------------------------------------------------- summarize

\* The summaries the summarize service may persist.
SummaryTexts == {"s1", "s2"}

\* The call has raised: nothing of its transaction is pending any more.
PersistRaised(p) ==
    [p EXCEPT !.pc = "done", !.txn_summary = FALSE, !.txn_status = FALSE,
              !.outcome = "raised"]

\* persist_summary_and_update_lecture(conn, lecture_id, summary, metadata_str)
\* is called and enters `async with conn.transaction()`, which awaits BEGIN:
\* the transaction is open and holds nothing, or BEGIN raises and the call
\* raises with no statement made.
PersistCall ==
    /\ persist.pc \in {"idle", "done"}
    /\ \E id \in LectureIds, text \in SummaryTexts, ok \in BOOLEAN :
          persist' = IF ok
                     THEN [IdlePersist EXCEPT !.pc = "upsert", !.lecture_id = id,
                                              !.summary = text]
                     ELSE PersistRaised([IdlePersist EXCEPT !.lecture_id = id,
                                                            !.summary = text])
    /\ UNCHANGED <<persistence, settings, storage_doc, lecture, tables, objects, run, summaries>>

\* A conn.execute of the block raises: the block is left through the exit
\* of the transaction, which awaits ROLLBACK; until then the statements made
\* are still pending.
PersistFails(p) == [p EXCEPT !.pc = "rollback"]

\* The exit of the block on an exception: ROLLBACK is awaited, the
\* statements made are discarded and the caller sees the exception; if the
\* ROLLBACK raises itself the transaction is not committed either.
PersistRollback ==
    /\ persist.pc = "rollback"
    /\ persist' = PersistRaised(persist)
    /\ UNCHANGED <<persistence, settings, storage_doc, lecture, tables, objects, run, summaries>>

\* INSERT INTO summaries ... without the ON CONFLICT clause: one more row.
insert_summary(row, text) == [rows |-> row.rows + 1, content |-> text]

\* INSERT INTO summaries ... ON CONFLICT (lecture_id) DO UPDATE SET content =
\* EXCLUDED.content: the lecture's row holds the content, a new row if it had none.
upsert_summary(row, text) ==
    [rows |-> IF row.rows = 0 THEN 1 ELSE row.rows, content |-> text]

\* The first statement of the transaction: the upsert of the summary.
PersistUpsert ==
    /\ persist.pc = "upsert"
    /\ \E ok \in BOOLEAN :
          persist' = IF ok
                     THEN [persist EXCEPT !.pc = "update_status", !.txn_summary = TRUE]
                     ELSE PersistFails(persist)
    /\ UNCHANGED <<persistence, settings, storage_doc, lecture, tables, objects, run, summaries>>

\* The second statement: UPDATE lectures SET status = 'complete'.
PersistUpdateStatus ==
    /\ persist.pc = "update_status"
    /\ \E ok \in BOOLEAN :
          persist' = IF ok
                     THEN [persist EXCEPT !.pc = "commit", !.txn_status = TRUE]
                     ELSE PersistFails(persist)
    /\ UNCHANGED <<persistence, settings, storage_doc, lecture, tables, objects, run, summaries>>

\* The block is left normally and its exit awaits COMMIT: both statements
\* take effect, or the COMMIT raises, no ROLLBACK follows it, and neither does.
PersistCommit ==
    /\ persist.pc = "commit"
    /\ \E ok \in BOOLEAN :
          IF ok
          THEN /\ summaries' = [summaries EXCEPT ![persist.lecture_id] =
                                    upsert_summary(@, persist.summary)]
               /\ lecture' = UpdateLecture(persist.lecture_id,
                                [lecture EXCEPT !.status = "complete"])
               /\ persist' = [persist EXCEPT
                     !.pc = "done", !.txn_summary = FALSE, !.txn_status = FALSE,
                     !.replaced = summaries[persist.lecture_id].rows >= 1,
                     !.outcome = "returned"]
          ELSE /\ persist' = PersistRaised(persist)
               /\ UNCHANGED <<lecture, summaries>>
    /\ UNCHANGED <<persistence, settings, storage_doc, tables, objects, run>>

persist_summary_and_update_lecture ==
    \/ PersistCall
    \/ PersistUpsert
    \/ PersistUpdateStatus
    \/ PersistCommit
    \/ PersistRollback

\* The lecture when the summarize service is reached: any status but
\* 'complete', no summary yet; the ingestion is not running.
InitSummary ==
    /\ persistence = "get_or_create"
    /\ settings = [postgres_dsn |-> TRUE]
    /\ storage_doc \in Docs
    /\ \E st \in LectureStatuses \ {"complete"} :
          lecture = [InitLecture(FALSE) EXCEPT !.status = st]
    /\ slides = [n \in SlideNos |-> 0]
    /\ chunks = [c \in SlideNos \X ChunkIdxs |-> 0]
    /\ fulls = {}
    /\ content_images = {}
    /\ objects = {}
    /\ run = [s \in Slots |-> IdleRun]
    /\ NoSummarize

NextSummary == persist_summary_and_update_lecture

SpecSummary == InitSummary /\ [][NextSummary]_vars

\* ------------------------------------------------------------------ C30

\* C30, in every state: a lecture has at most one summary row; when the
\* lecture's status is 'complete' it has exactly one; a call that returned
\* left the row holding the content it was given, also when a row was there;
\* a call that raised left no pending write.
C30_State ==
    /\ \A id \in LectureIds : summaries[id].rows <= 1
    /\ lecture.status = "complete" => summaries[ExistingLecture].rows = 1
    /\ (persist.pc = "done" /\ persist.outcome = "returned") =>
          summaries[persist.lecture_id] = [rows |-> 1, content |-> persist.summary]
    /\ persist.pc = "done" => ~persist.txn_summary /\ ~persist.txn_status

\* C30, in every step: the summaries table and the lecture's status change
\* only in the commit of a call that made both statements, and then both
\* take effect together: the row of the call's lecture holds the call's
\* content and the status of that lecture is 'complete'.
C30_Step ==
    (summaries' # summaries \/ lecture' # lecture) =>
        /\ persist.pc = "commit" /\ persist.txn_summary /\ persist.txn_status
        /\ persist'.outcome = "returned"
        /\ summaries'[persist.lecture_id] = [rows |-> 1, content |-> persist.summary]
        /\ \A id \in LectureIds \ {persist.lecture_id} : summaries'[id] = summaries[id]
        /\ persist.lecture_id = ExistingLecture => lecture'.status = "complete"
        /\ persist.lecture_id # ExistingLecture => lecture' = lecture

\* C30: persist_summary_and_update_lecture upserts the summary and sets the
\* status to 'complete' in one transaction: both take effect or neither, a
\* status 'complete' implies exactly one summary row, and a second call
\* leaves one row with the latest content.
C30_SummaryAndStatusTogether == []C30_State /\ [][C30_Step]_vars

\* A second call for the lecture returned: it replaced the content of the
\* one row, and the status is 'complete'.
C30_Witness ==
    /\ persist.pc = "done"
    /\ persist.outcome = "returned"
    /\ persist.replaced
    /\ persist.lecture_id = ExistingLecture
    /\ summaries[ExistingLecture] = [rows |-> 1, content |-> "s2"]
    /\ lecture.status = "complete"

====
